---- MODULE Spec2Model ----
(***************************************************************************)
(* A model of the DataFabrics shared-memory transport (raffino/dfshm).     *)
(*                                                                         *)
(*   - the single-producer / single-consumer circular queue of             *)
(*     src/trunk/df_shm_queue.c, one action per shared-memory access of    *)
(*     each endpoint operation (Spec: the stores the source issues         *)
(*     without a fence may reach memory out of program order;              *)
(*     SpecOrdered: every store in program order);                         *)
(*   - the region manager of src/df_shm.c over its three backends          *)
(*     (SpecShm: one process; SpecPeer: a creator and its peer).           *)
(***************************************************************************)
EXTENDS Integers, Sequences, FiniteSets, TLC

(***************************************************************************)
(* Bounds of the model.                                                    *)
(***************************************************************************)
\* max_num_slots of the queue under test
NumSlots == 2
\* max_payload_size of the queue under test, in bytes
MaxPayload == 1
\* region handle addresses each process's allocator hands out
MaxRegions == 2
\* calls of one kind (create, attach) a process makes at most
MaxCalls == 2

(***************************************************************************)
(* Program constants.                                                      *)
(***************************************************************************)
\* enum SLOT_FLAG
SLOT_FULL == 0
SLOT_EMPTY == 1

\* return codes of df_enqueue_vector / df_try_enqueue_vector / df_try_dequeue
RC_OK == 0
RC_ENQ_TOO_BIG == -1
RC_TRY_NO_SLOT == -1
RC_TRY_TOO_BIG == 1
\* not a return code: the call has not returned yet
RC_PENDING == RC_TRY_TOO_BIG + 1

\* #define DF_SHM_UNKNOWN_PID ((pid_t) -1)
DF_SHM_UNKNOWN_PID == -1
\* the NULL region pointer
NULL == 0

VARIABLES
    initialized,  \* df_queue.initialized
    slots,        \* the slot table in shared memory: status, size, data
    pep,          \* the sender endpoint exists
    pidx,         \* sender ep->slot_index
    ppc,          \* where the sender is: idle, call_enqueue, call_try_enqueue
                  \* (buffers filled, about to call), spin, write
    pvec,         \* the iovec list of the sender's next or current call
    ppend,        \* the stores of the current enqueue not yet performed
    pret,         \* what the sender's last call returned
    cep,          \* the receiver endpoint exists
    cidx,         \* receiver ep->slot_index
    cpc,          \* where the receiver is: idle, spin, rdsize, release
    cheld,        \* a dequeue succeeded and the slot is not yet released
    clen,         \* *length of the last successful dequeue
    cpend,        \* the stores of the current release not yet performed
    cret,         \* what the receiver's last call returned
    inflight,     \* history: payloads published and not yet released, oldest first
    epret         \* what the last df_get_queue_sender_ep and the last
                  \* df_get_queue_receiver_ep returned: none yet, ep or null

VARIABLES
    ve            \* one call of df_enqueue_vector / df_try_enqueue_vector on an
                  \* empty slot: the iov_len of its buffers, the size it computed,
                  \* where each buffer was copied and how many bytes were written

VARIABLES
    rel           \* the last df_release entered by a caller that may hold no
                  \* slot: the cursor and the slot status it found

qvars == <<ve, rel, initialized, slots, pep, pidx, ppc, pvec, ppend, pret,
           cep, cidx, cpc, cheld, clen, cpend, cret, inflight, epret>>

VARIABLES
    kind,         \* the DF_SHM_METHOD the processes passed to df_shm_init
    stat,         \* per process: run, finalized, crashed, hung
    hlive,        \* per process: the region handles malloc'ed and not freed
    hreg,         \* per process: handle memory by address, kept after free
    created,      \* per process: method->created_regions
    foreign,      \* per process: method->foreign_regions
    numc,         \* per process: method->num_created_regions
    numf,         \* per process: method->num_foreign_regions
    token,        \* per process: the SysV m_data->token_id
    counter,      \* per process: the POSIX m_data->counter
    anchor,       \* per process: the SysV key file /tmp/df_shm_sysv.<pid> exists
    ns,           \* the system's names (paths, shm names, keys): name -> object
    osize,        \* the size of each backing object
    oby,          \* history: the process that created each backing object
    ret           \* the last call of the region manager: who made it, which
                  \* call, what it returned, and whether a callback failed

VARIABLES
    kg            \* the key generation of one SysV method handle: its token_id
                  \* and the keys ftok has produced for its create_region calls

shmvars == <<kind, stat, hlive, hreg, created, foreign, numc, numf, token,
             counter, anchor, ns, osize, oby, ret, kg>>

VARIABLES
    lay           \* a queue being laid out: the arguments n and p, what
                  \* df_calculate_queue_size returned, the header fields
                  \* df_create_queue stored, and the bytes addressed

VARIABLES
    cross         \* a contact descriptor carried from a region of one backend
                  \* to the attach callback of a backend: the files and the
                  \* SysV segments that exist, the descriptor's bytes, the
                  \* backend that produced it, and what the attach returned

VARIABLES
    xch,          \* two peers exchanging messages over two queues: the slots
                  \* of both queues and each peer's position, cursors and counts
    mk            \* a queue under construction by df_create_queue while a
                  \* peer looks at it: the header, the slots, the stores pending

vars == <<qvars, shmvars, lay, cross, xch, mk>>

(***************************************************************************)
(* Inputs.                                                                 *)
(***************************************************************************)
Buf(len, b) == [i \in 1..len |-> b]

\* the iovec lists the sender passes: one buffer of every length up to the
\* limit (the fill byte alternating with the length), one buffer a byte over
\* the limit, and two-buffer lists whose total is the limit and the limit
\* plus one
Vecs == { <<Buf(l, 1 + (l % 2))>> : l \in 0..MaxPayload }
        \cup { <<Buf(MaxPayload + 1, 1)>> }
        \cup { <<Buf(1, 1), Buf(l, 2)>> : l \in (MaxPayload - 1)..MaxPayload }

(***************************************************************************)
(* Pure helpers of the queue.                                              *)
(***************************************************************************)
RECURSIVE VecSize(_)
\* the loop  for(i = 0; i < veccnt; i ++) size += vec[i].iov_len;
VecSize(vec) == IF vec = <<>> THEN 0 ELSE Len(Head(vec)) + VecSize(Tail(vec))

RECURSIVE CopyVec(_, _, _)
\* the memcpy loop: each buffer is copied at dest, dest advances by its length
CopyVec(data, vec, dest) ==
    IF vec = <<>> THEN data
    ELSE CopyVec([i \in DOMAIN data |->
                     IF i > dest /\ i <= dest + Len(Head(vec))
                     THEN Head(vec)[i - dest] ELSE data[i]],
                 Tail(vec), dest + Len(Head(vec)))

RECURSIVE Concat(_)
Concat(vec) == IF vec = <<>> THEN <<>> ELSE Head(vec) \o Concat(Tail(vec))

\* (ep->slot_index + 1) % ep->queue->max_num_slots
\* a cursor that stays where it is
NextIndexStays(i) == i

\* (ep->slot_index + 1) % ep->queue->max_num_slots
NextIndex(i) == (i + 1) % NumSlots

FitsAlways(size) == TRUE
\* if(size <= ep->queue->max_payload_size)
Fits(size) == size <= MaxPayload

SlotIsEmptyAlways(i) == TRUE
\* current_slot->status != SLOT_EMPTY, negated: the slot may be written
SlotIsEmpty(i) == slots[i].status = SLOT_EMPTY

SlotIsFullAlways(i) == TRUE
\* current_slot->status != SLOT_FULL, negated: the slot may be read
SlotIsFull(i) == slots[i].status = SLOT_FULL

EmptySlot == [status |-> SLOT_EMPTY, size |-> 0, data |-> [i \in 1..MaxPayload |-> 0]]

(***************************************************************************)
(* The region manager: processes, handle memory and the system's objects.  *)
(***************************************************************************)
\* the pids of the two processes; each holds one method handle
Procs == {1, 2}

\* the process that creates regions; the other one is its peer
Creators == {1}

\* enum DF_SHM_METHOD
Kinds == {"mmap", "sysv", "posix"}

\* the addresses malloc hands out for region handles
Addr == 1..MaxRegions

\* the backing objects the system can hold at once
Objs == 1..(MaxRegions + 1)

\* the region sizes the system can satisfy, and one it cannot: ftruncate and
\* shmget fail for it
RegionSizes == {1, 2}
HugeSize == Cardinality(RegionSizes) + 1

\* the names of the system: mkstemp paths, POSIX shm names, SysV keys, and
\* one well-known name for the named calls
TmpNames == { <<"tmp", i>> : i \in Objs }
WellKnown == <<"wk">>
Names == TmpNames \cup { <<"shm", p, 0>> : p \in Creators }
         \cup { <<"key", p, t>> : p \in Creators, t \in 0..(MaxCalls + 1) }
         \cup { WellKnown }

\* the memory of a handle never written
NoRegion == [creator_id |-> 0, size |-> 0, name |-> <<>>, obj |-> NULL,
             attached |-> FALSE, next |-> NULL]

\* no call of the region manager was made yet
NoCall == [pid |-> 0, op |-> "none", rc |-> 0, failed |-> FALSE]

\* the state after df_shm_init(k, NULL) in both processes; the SysV init
\* leaves m_data->token_id as malloc returned it
ShmInit(k) ==
    /\ kind = k
    /\ stat = [p \in Procs |-> "run"]
    /\ hlive = [p \in Procs |-> {}]
    /\ hreg = [p \in Procs |-> [a \in Addr |-> NoRegion]]
    /\ created = [p \in Procs |-> NULL]
    /\ foreign = [p \in Procs |-> NULL]
    /\ numc = [p \in Procs |-> 0]
    /\ numf = [p \in Procs |-> 0]
    /\ token \in [Procs -> {0, 1}]
    /\ \A p \in Procs : (k # "sysv" \/ p \notin Creators) => token[p] = 0
    /\ counter = [p \in Procs |-> 0]
    /\ anchor = [p \in Procs |-> k = "sysv"]
    /\ ns = [n \in Names |-> NULL]
    /\ osize = [o \in Objs |-> 0]
    /\ oby = [o \in Objs |-> 0]
    /\ ret = NoCall

(***************************************************************************)
(* The sizes of a queue.  size_t has 64 bits and max_num_slots 32, more    *)
(* than the model checker's integers hold, so a size is a sequence of      *)
(* Limbs digits of base 2^8, least significant first; Limbs digits hold    *)
(* the product of a uint32_t and a size_t and the sums made with it, so    *)
(* Add and Mul are exact, and Wrap cuts a value to the 8 bytes of size_t.  *)
(***************************************************************************)
\* sizeof(size_t), sizeof(uint32_t)
SizeTBytes == 8
Uint32Bytes == 4
\* #define CACHE_LINE_SIZE 64
CACHE_LINE_SIZE == 64
\* sizeof(df_queue_slot): status, 4 bytes of padding, size
SizeofSlot == 16
\* sizeof(df_queue): five fields of 32 bytes and char padding[64 - 4 - 4 - 2*8]
SizeofQueue == 72

Limbs == SizeTBytes + Uint32Bytes + 1
Base == 2^8

\* the digits of a number below 2^31
FromNat(x) ==
    [i \in 1..Limbs |-> IF i <= 3 THEN (x \div Base^(i - 1)) % Base
                        ELSE IF i = 4 THEN x \div Base^3 ELSE 0]

\* 2^k
Pow2(k) == [i \in 1..Limbs |-> IF i = (k \div 8) + 1 THEN 2^(k % 8) ELSE 0]

\* SIZE_MAX - d, for d below 2^8
SizeMaxMinus(d) ==
    [i \in 1..Limbs |-> IF i = 1 THEN Base - 1 - d
                        ELSE IF i <= SizeTBytes THEN Base - 1 ELSE 0]

RECURSIVE Carry(_, _, _)
\* the digits of the number whose i-th column sums are cols[i]
Carry(cols, i, c) ==
    IF i > Limbs THEN <<>>
    ELSE <<(cols[i] + c) % Base>> \o Carry(cols, i + 1, (cols[i] + c) \div Base)

Add(a, b) == Carry([i \in 1..Limbs |-> a[i] + b[i]], 1, 0)

RECURSIVE Column(_, _, _, _)
\* the sum of a[i] * b[k + 1 - i] over i in 1..j
Column(a, b, k, j) ==
    IF j = 0 THEN 0 ELSE a[j] * b[k + 1 - j] + Column(a, b, k, j - 1)

Mul(a, b) == Carry([k \in 1..Limbs |-> Column(a, b, k, k)], 1, 0)

\* the value as a size_t: modulo 2^64
Wrap(a) == [i \in 1..Limbs |-> IF i <= SizeTBytes THEN a[i] ELSE 0]

RECURSIVE LeqFrom(_, _, _)
LeqFrom(a, b, i) ==
    IF i = 0 THEN TRUE
    ELSE IF a[i] # b[i] THEN a[i] < b[i]
    ELSE LeqFrom(a, b, i - 1)

\* a <= b
Leq(a, b) == LeqFrom(a, b, Limbs)

\* x % CACHE_LINE_SIZE
ModCacheLine(a) == a[1] % CACHE_LINE_SIZE

\* the next multiple of CACHE_LINE_SIZE at or above a, in the integers
RoundUp(a) ==
    IF ModCacheLine(a) # 0 THEN Add(a, FromNat(CACHE_LINE_SIZE - ModCacheLine(a)))
    ELSE a

\* df_calculate_slot_size, in size_t arithmetic
CalculateSlotSize(p) ==
    LET slot_size == Wrap(Add(FromNat(SizeofSlot), p))
    IN IF ModCacheLine(slot_size) # 0
       THEN Wrap(Add(slot_size, FromNat(CACHE_LINE_SIZE - ModCacheLine(slot_size))))
       ELSE slot_size

\* df_calculate_queue_size, in size_t arithmetic
CalculateQueueSize(n, p) ==
    Wrap(Add(FromNat(SizeofQueue), Wrap(Mul(n, CalculateSlotSize(p)))))

\* no queue is being laid out
NoLayout == [pc |-> "none"]

\* no exchange is running and no queue is under construction
NoExchange == [pc |-> "none"]
NoMake == [pc |-> "none"]

\* no vector call is being followed
NoVector == [pc |-> "none"]

\* no df_release without a dequeue was entered
NoRelease == [pc |-> "none"]

\* no SysV method handle is generating keys
NoKeys == [pc |-> "none"]

\* no descriptor is being carried
NoCross == [files |-> {}, segs |-> {}, desc |-> <<>>, from |-> "none",
            by |-> "none", rc |-> 0]

(***************************************************************************)
(* The state after df_create_queue: every slot EMPTY with size 0,          *)
(* initialized = 1; no endpoint exists yet.                                *)
(***************************************************************************)
QInit ==
    /\ initialized = 1
    /\ slots = [i \in 0..(NumSlots - 1) |-> EmptySlot]
    /\ pep = FALSE /\ pidx = 0 /\ ppc = "idle"
    /\ pvec = <<>> /\ ppend = {} /\ pret = RC_OK
    /\ cep = FALSE /\ cidx = 0 /\ cpc = "idle" /\ cheld = FALSE
    /\ clen = 0 /\ cpend = {} /\ cret = RC_OK
    /\ inflight = <<>>
    /\ epret = [sender |-> "none", receiver |-> "none"]
    /\ ve = NoVector
    /\ rel = NoRelease

\* the queue alone: the region manager stays as initialised
Init == QInit /\ kg = NoKeys /\ ShmInit("mmap") /\ lay = NoLayout /\ cross = NoCross /\ xch = NoExchange /\ mk = NoMake

punch == <<pep, pidx, ppc, pvec, ppend, pret>>
cunch == <<cep, cidx, cpc, cheld, clen, cpend, cret>>

(***************************************************************************)
(* Endpoint construction.                                                  *)
(***************************************************************************)
\* df_get_queue_sender_ep: df_internal_get_queue_ep(queue, 1), which returns
\* NULL if queue->initialized is 0 and else an endpoint with slot_index 0
GetSenderEp ==
    /\ ~pep
    /\ IF initialized = 1
       THEN pep' = TRUE /\ pidx' = 0 /\ epret' = [epret EXCEPT !.sender = "ep"]
       ELSE pep' = pep /\ pidx' = pidx /\ epret' = [epret EXCEPT !.sender = "null"]
    /\ UNCHANGED <<shmvars, lay, cross, xch, mk, ve, rel, initialized, slots, ppc, pvec, ppend, pret,
                   cunch, inflight>>

\* df_get_queue_receiver_ep: df_internal_get_queue_ep(queue, 0)
GetReceiverEp ==
    /\ ~cep
    /\ IF initialized = 1
       THEN cep' = TRUE /\ cidx' = 0 /\ epret' = [epret EXCEPT !.receiver = "ep"]
       ELSE cep' = cep /\ cidx' = cidx /\ epret' = [epret EXCEPT !.receiver = "null"]
    /\ UNCHANGED <<shmvars, lay, cross, xch, mk, ve, rel, initialized, slots, punch, cpc, cheld, clen,
                   cpend, cret, inflight>>

\* a df_destroy_queue that also puts every slot back to EMPTY
DfDestroyQueueWipes ==
    /\ initialized = 1
    /\ initialized' = 0
    /\ slots' = [i \in 0..(NumSlots - 1) |-> EmptySlot]
    /\ UNCHANGED <<shmvars, lay, cross, xch, mk, ve, rel, epret, punch, cunch, inflight>>

\* df_destroy_queue: queue->initialized = 0; return 0;
DfDestroyQueue ==
    /\ initialized = 1
    /\ initialized' = 0
    /\ UNCHANGED <<shmvars, lay, cross, xch, mk, ve, rel, epret, slots, punch, cunch, inflight>>

(***************************************************************************)
(* The sender.                                                             *)
(***************************************************************************)
\* the caller fills the buffers of its next call and picks the call
Prepare ==
    /\ pep /\ ppc = "idle"
    /\ \E vec \in Vecs : pvec' = vec
    /\ \E call \in {"call_enqueue", "call_try_enqueue"} : ppc' = call
    /\ pret' = RC_PENDING
    /\ UNCHANGED <<shmvars, lay, cross, xch, mk, ve, rel, epret, initialized, slots, pep, pidx, ppend, cunch, inflight>>

\* df_enqueue_vector up to its spin loop: the size pre-check
EnqueueCall ==
    /\ initialized = 1 /\ ppc = "call_enqueue"
    /\ IF Fits(VecSize(pvec))
       THEN /\ ppc' = "spin" /\ pvec' = pvec /\ pret' = RC_PENDING
       ELSE /\ ppc' = "idle" /\ pvec' = <<>> /\ pret' = RC_ENQ_TOO_BIG
    /\ UNCHANGED <<shmvars, lay, cross, xch, mk, ve, rel, epret, initialized, slots, pep, pidx, ppend, cunch, inflight>>

\* while(current_slot->status != SLOT_EMPTY) { }  -- the read that ends the loop
EnqueueSpin ==
    /\ ppc = "spin"
    /\ SlotIsEmpty(pidx)
    /\ ppc' = "write" /\ ppend' = {"data", "size", "status"}
    /\ UNCHANGED <<shmvars, lay, cross, xch, mk, ve, rel, epret, initialized, slots, pep, pidx, pvec, pret, cunch, inflight>>

\* a df_try_enqueue_vector that reads the status before it checks the size
TryEnqueueCallStatusFirst ==
    /\ initialized = 1 /\ ppc = "call_try_enqueue"
    /\ IF ~SlotIsEmpty(pidx)
       THEN /\ ppc' = "idle" /\ pvec' = <<>> /\ pret' = RC_TRY_NO_SLOT
            /\ ppend' = {}
       ELSE IF Fits(VecSize(pvec))
            THEN /\ ppc' = "write" /\ pvec' = pvec /\ pret' = RC_PENDING
                 /\ ppend' = {"data", "size", "status"}
            ELSE /\ ppc' = "idle" /\ pvec' = <<>> /\ pret' = RC_TRY_TOO_BIG
                 /\ ppend' = {}
    /\ UNCHANGED <<shmvars, lay, cross, xch, mk, ve, rel, epret, initialized, slots, pep, pidx, cunch, inflight>>

\* a df_try_enqueue_vector that waits for its slot as df_enqueue_vector does
TryEnqueueCallWaits ==
    /\ initialized = 1 /\ ppc = "call_try_enqueue"
    /\ IF Fits(VecSize(pvec))
       THEN /\ ppc' = "spin" /\ pvec' = pvec /\ pret' = RC_PENDING
            /\ ppend' = {}
       ELSE /\ ppc' = "idle" /\ pvec' = <<>> /\ pret' = RC_TRY_TOO_BIG
            /\ ppend' = {}
    /\ UNCHANGED <<shmvars, lay, cross, xch, mk, ve, rel, epret, initialized, slots, pep, pidx, cunch, inflight>>

\* df_try_enqueue_vector up to the copy: the size pre-check, then one status read
TryEnqueueCall ==
    /\ initialized = 1 /\ ppc = "call_try_enqueue"
    /\ IF Fits(VecSize(pvec))
       THEN IF SlotIsEmpty(pidx)
            THEN /\ ppc' = "write" /\ pvec' = pvec /\ pret' = RC_PENDING
                 /\ ppend' = {"data", "size", "status"}
            ELSE /\ ppc' = "idle" /\ pvec' = <<>> /\ pret' = RC_TRY_NO_SLOT
                 /\ ppend' = {}
       ELSE /\ ppc' = "idle" /\ pvec' = <<>> /\ pret' = RC_TRY_TOO_BIG
            /\ ppend' = {}
    /\ UNCHANGED <<shmvars, lay, cross, xch, mk, ve, rel, epret, initialized, slots, pep, pidx, cunch, inflight>>

\* after the last store of an enqueue:
\* ep->slot_index = (ep->slot_index + 1) % max_num_slots; return 0;
EnqueueReturn(left) ==
    IF left = {}
    THEN /\ pidx' = NextIndex(pidx)
         /\ ppc' = "idle" /\ pvec' = <<>> /\ pret' = RC_OK
    ELSE UNCHANGED <<pidx, ppc, pvec, pret>>

\* the memcpy loop into current_slot->data.  inorder: the stores of the call
\* are performed in program order
EnqueueCopy(inorder) ==
    /\ ppc = "write" /\ "data" \in ppend
    /\ slots' = [slots EXCEPT ![pidx].data = CopyVec(@, pvec, 0)]
    /\ ppend' = ppend \ {"data"}
    /\ EnqueueReturn(ppend')
    /\ UNCHANGED <<shmvars, lay, cross, xch, mk, ve, rel, epret, initialized, pep, cunch, inflight>>

\* current_slot->size = size;
EnqueueSize(inorder) ==
    /\ ppc = "write" /\ "size" \in ppend
    /\ inorder => "data" \notin ppend
    /\ slots' = [slots EXCEPT ![pidx].size = VecSize(pvec)]
    /\ ppend' = ppend \ {"size"}
    /\ EnqueueReturn(ppend')
    /\ UNCHANGED <<shmvars, lay, cross, xch, mk, ve, rel, epret, initialized, pep, cunch, inflight>>

\* current_slot->status = SLOT_FULL;
EnqueuePublish(inorder) ==
    /\ ppc = "write" /\ "status" \in ppend
    /\ inorder => ppend = {"status"}
    /\ slots' = [slots EXCEPT ![pidx].status = SLOT_FULL]
    /\ ppend' = ppend \ {"status"}
    /\ inflight' = Append(inflight, Concat(pvec))
    /\ EnqueueReturn(ppend')
    /\ UNCHANGED <<shmvars, lay, cross, xch, mk, ve, rel, epret, initialized, pep, cunch>>

\* a df_is_enqueue_possible that tests for the status df_is_dequeue_possible
\* tests for
IsEnqueuePossibleTestsFull ==
    /\ pep /\ initialized = 1 /\ ppc = "idle"
    /\ pret' = (IF slots[pidx].status = SLOT_FULL THEN 1 ELSE 0)
    /\ UNCHANGED <<shmvars, lay, cross, xch, mk, ve, rel, epret, initialized, slots, pep, pidx, ppc, pvec, ppend, cunch, inflight>>

\* df_is_enqueue_possible
IsEnqueuePossible ==
    /\ pep /\ initialized = 1 /\ ppc = "idle"
    /\ pret' = (IF slots[pidx].status = SLOT_EMPTY THEN 1 ELSE 0)
    /\ UNCHANGED <<shmvars, lay, cross, xch, mk, ve, rel, epret, initialized, slots, pep, pidx, ppc, pvec, ppend, cunch, inflight>>

(***************************************************************************)
(* The receiver.                                                           *)
(***************************************************************************)
\* df_dequeue up to its spin loop
DequeueCall ==
    /\ cep /\ initialized = 1 /\ cpc = "idle"
    /\ cpc' = "spin" /\ cret' = RC_PENDING
    /\ UNCHANGED <<shmvars, lay, cross, xch, mk, ve, rel, epret, initialized, slots, punch, cep, cidx, cheld, clen, cpend, inflight>>

\* while(current_slot->status != SLOT_FULL) { }  -- the read that ends the loop
DequeueSpin ==
    /\ cpc = "spin"
    /\ SlotIsFull(cidx)
    /\ cpc' = "rdsize"
    /\ UNCHANGED <<shmvars, lay, cross, xch, mk, ve, rel, epret, initialized, slots, punch, cep, cidx, cheld, clen, cpend,
                   cret, inflight>>

\* df_try_dequeue: one status read
TryDequeueCall ==
    /\ cep /\ initialized = 1 /\ cpc = "idle"
    /\ IF SlotIsFull(cidx)
       THEN cpc' = "rdsize" /\ cret' = RC_PENDING
       ELSE cpc' = "idle" /\ cret' = RC_TRY_NO_SLOT
    /\ UNCHANGED <<shmvars, lay, cross, xch, mk, ve, rel, epret, initialized, slots, punch, cep, cidx, cheld, clen, cpend, inflight>>

\* a df_dequeue that hands the slot back as it returns
DequeueReturnFreesSlot ==
    /\ cpc = "rdsize"
    /\ clen' = slots[cidx].size
    /\ cheld' = TRUE
    /\ cpc' = "idle" /\ cret' = RC_OK
    /\ slots' = [slots EXCEPT ![cidx].status = SLOT_EMPTY]
    /\ UNCHANGED <<shmvars, lay, cross, xch, mk, ve, rel, epret, initialized, punch, cep, cidx, cpend, inflight>>

\* *data = current_slot->data; *length = current_slot->size; return 0;
DequeueReturn ==
    /\ cpc = "rdsize"
    /\ clen' = slots[cidx].size
    /\ cheld' = TRUE
    /\ cpc' = "idle" /\ cret' = RC_OK
    /\ UNCHANGED <<shmvars, lay, cross, xch, mk, ve, rel, epret, initialized, slots, punch, cep, cidx, cpend, inflight>>

\* what the receiver reads through *data, *length bytes of it
Payload == [i \in 1..clen |-> slots[cidx].data[i]]

\* df_release is entered, by a caller that holds a dequeued slot
ReleaseCall ==
    /\ cep /\ initialized = 1 /\ cpc = "idle" /\ cheld
    /\ cpc' = "release" /\ cpend' = {"size", "status"}
    /\ cret' = RC_PENDING
    /\ UNCHANGED <<shmvars, lay, cross, xch, mk, ve, rel, epret, initialized, slots, punch, cep, cidx, cheld, clen, inflight>>

\* after the last store of a release:
\* ep->slot_index = (ep->slot_index + 1) % max_num_slots;
ReleaseReturn(left) ==
    IF left = {}
    THEN /\ cidx' = NextIndex(cidx)
         /\ cpc' = "idle" /\ cheld' = FALSE /\ clen' = 0 /\ cret' = RC_OK
    ELSE UNCHANGED <<cidx, cpc, cheld, clen, cret>>

\* a df_release that also clears the payload area of the slot
ReleaseSizeClearsData(inorder) ==
    /\ cpc = "release" /\ "size" \in cpend
    /\ slots' = [slots EXCEPT ![cidx].size = 0,
                              ![cidx].data = [i \in 1..MaxPayload |-> 0]]
    /\ cpend' = cpend \ {"size"}
    /\ ReleaseReturn(cpend')
    /\ UNCHANGED <<shmvars, lay, cross, xch, mk, ve, rel, epret, initialized, punch, cep, inflight>>

\* current_slot->size = 0;
ReleaseSize(inorder) ==
    /\ cpc = "release" /\ "size" \in cpend
    /\ slots' = [slots EXCEPT ![cidx].size = 0]
    /\ cpend' = cpend \ {"size"}
    /\ ReleaseReturn(cpend')
    /\ UNCHANGED <<shmvars, lay, cross, xch, mk, ve, rel, epret, initialized, punch, cep, inflight>>

\* current_slot->status = SLOT_EMPTY;
ReleaseStatus(inorder) ==
    /\ cpc = "release" /\ "status" \in cpend
    /\ inorder => cpend = {"status"}
    /\ slots' = [slots EXCEPT ![cidx].status = SLOT_EMPTY]
    /\ cpend' = cpend \ {"status"}
    /\ inflight' = IF inflight = <<>> THEN <<>> ELSE Tail(inflight)
    /\ ReleaseReturn(cpend')
    /\ UNCHANGED <<shmvars, lay, cross, xch, mk, ve, rel, epret, initialized, punch, cep>>

\* a df_is_dequeue_possible that tests for the status df_is_enqueue_possible
\* tests for
IsDequeuePossibleTestsEmpty ==
    /\ cep /\ initialized = 1 /\ cpc = "idle"
    /\ cret' = (IF slots[cidx].status = SLOT_EMPTY THEN 1 ELSE 0)
    /\ UNCHANGED <<shmvars, lay, cross, xch, mk, ve, rel, epret, initialized, slots, punch, cep, cidx, cpc, cheld, clen,
                   cpend, inflight>>

\* df_is_dequeue_possible
IsDequeuePossible ==
    /\ cep /\ initialized = 1 /\ cpc = "idle"
    /\ cret' = (IF slots[cidx].status = SLOT_FULL THEN 1 ELSE 0)
    /\ UNCHANGED <<shmvars, lay, cross, xch, mk, ve, rel, epret, initialized, slots, punch, cep, cidx, cpc, cheld, clen,
                   cpend, inflight>>

(***************************************************************************)
(* Specifications of the queue.                                            *)
(***************************************************************************)
\* the queue as the source has it: no fence separates the stores of an
\* enqueue, nor those of a release, and no slot field is volatile or atomic,
\* so the stores of one call may reach the shared memory in any order
Next ==
    \/ GetSenderEp \/ GetReceiverEp
    \/ Prepare \/ EnqueueCall \/ EnqueueSpin \/ TryEnqueueCall
    \/ EnqueueCopy(FALSE) \/ EnqueueSize(FALSE) \/ EnqueuePublish(FALSE)
    \/ IsEnqueuePossible
    \/ DequeueCall \/ DequeueSpin \/ TryDequeueCall \/ DequeueReturn
    \/ ReleaseCall \/ ReleaseSize(FALSE) \/ ReleaseStatus(FALSE)
    \/ IsDequeuePossible

Spec == Init /\ [][Next]_vars

\* the same calls on a build and a machine that perform every store in
\* program order
NextOrdered ==
    \/ GetSenderEp \/ GetReceiverEp
    \/ Prepare \/ EnqueueCall \/ EnqueueSpin \/ TryEnqueueCall
    \/ EnqueueCopy(TRUE) \/ EnqueueSize(TRUE) \/ EnqueuePublish(TRUE)
    \/ IsEnqueuePossible
    \/ DequeueCall \/ DequeueSpin \/ TryDequeueCall \/ DequeueReturn
    \/ ReleaseCall \/ ReleaseSize(TRUE) \/ ReleaseStatus(TRUE)
    \/ IsDequeuePossible

SpecOrdered == Init /\ [][NextOrdered]_vars

\* the queue with a creator that may call df_destroy_queue at any time
NextDestroy == Next \/ DfDestroyQueue

SpecDestroy == Init /\ [][NextDestroy]_vars

\* the instructions of a call that has been entered: a thread inside a call
\* goes on to its next instruction, and leaves a spin loop if the slot stays
\* in the status the loop waits for
SenderRuns ==
    \/ EnqueueCall \/ EnqueueSpin \/ TryEnqueueCall
    \/ EnqueueCopy(FALSE) \/ EnqueueSize(FALSE) \/ EnqueuePublish(FALSE)

ReceiverRuns ==
    DequeueSpin \/ DequeueReturn \/ ReleaseSize(FALSE) \/ ReleaseStatus(FALSE)

\* the queue with threads that run while they are inside a call.  Nothing
\* makes a thread enter a call: either peer may stay out of the queue for
\* ever
SpecTry == Spec /\ WF_vars(SenderRuns) /\ WF_vars(ReceiverRuns)

(***************************************************************************)
(* The region manager.  Its calls are functions of the record St of the    *)
(* manager's variables, so that df_shm_finalize can apply df_destroy and   *)
(* df_detach to every region of its lists within one call.                 *)
(***************************************************************************)
St == [stat |-> stat, hlive |-> hlive, hreg |-> hreg, created |-> created,
       foreign |-> foreign, numc |-> numc, numf |-> numf, token |-> token,
       counter |-> counter, anchor |-> anchor, ns |-> ns, osize |-> osize,
       oby |-> oby]

\* some live handle maps object o
Mapped(st, o) ==
    \E p \in Procs : \E a \in st.hlive[p] : st.hreg[p][a].obj = o

\* some name is bound to object o
Named(st, o) == \E n \in Names : st.ns[n] = o

\* the objects that do not exist: neither named nor mapped
FreeObjs(st) == { o \in Objs : ~Mapped(st, o) /\ ~Named(st, o) }

\* the object a creating call gets
NewObj(st) == CHOOSE o \in FreeObjs(st) : \A x \in FreeObjs(st) : o <= x

\* the path mkstemp returns: one that names no file
NewTmpName(st) ==
    CHOOSE n \in TmpNames : /\ st.ns[n] = NULL
                            /\ \A m \in TmpNames : st.ns[m] = NULL => n[2] <= m[2]

\* an object that is no longer named or mapped is gone
Settle(st) ==
    [st EXCEPT !.osize = [o \in Objs |-> IF o \in FreeObjs(st) THEN 0 ELSE @[o]],
               !.oby = [o \in Objs |-> IF o \in FreeObjs(st) THEN 0 ELSE @[o]]]

\* ftruncate(fd, size) and shmget(key, size, ...) succeed for these sizes
ValidSize(size) == size \in RegionSizes

\* open(name, O_CREAT...) / shm_open(name, O_CREAT | O_RDWR): the object the
\* name is bound to, or a new one bound to it; trunc: O_TRUNC was given
OpenCreate(st, p, name, trunc) ==
    IF st.ns[name] # NULL
    THEN [st |-> IF trunc THEN [st EXCEPT !.osize[st.ns[name]] = 0] ELSE st,
          obj |-> st.ns[name]]
    ELSE LET o == NewObj(st)
         IN [st |-> [st EXCEPT !.ns[name] = o, !.osize[o] = 0, !.oby[o] = p],
             obj |-> o]

\* the tail of the mmap and POSIX create callbacks: ftruncate, mmap, close.
\* When ftruncate fails the callback returns -1 and leaves the file.
SizeAndMap(oc, name, size) ==
    IF ValidSize(size)
    THEN [rc |-> 0, st |-> [oc.st EXCEPT !.osize[oc.obj] = size],
          name |-> name, obj |-> oc.obj]
    ELSE [rc |-> -1, st |-> oc.st, name |-> name, obj |-> NULL]

\* df_shm_method_mmap_create_region
MmapCreateRegion(st, p, size) ==
    LET name == NewTmpName(st)
    IN SizeAndMap(OpenCreate(st, p, name, FALSE), name, size)

\* df_shm_method_mmap_create_named_region
MmapCreateNamedRegion(st, p, name, size) ==
    SizeAndMap(OpenCreate(st, p, name, TRUE), name, size)

\* df_shm_method_posixshm_create_region: the name is base_path.counter, and
\* counter is never incremented
PosixCreateRegion(st, p, size) ==
    LET name == <<"shm", p, st.counter[p]>>
    IN SizeAndMap(OpenCreate(st, p, name, FALSE), name, size)

\* df_shm_method_posixshm_create_named_region
PosixCreateNamedRegion(st, p, name, size) ==
    SizeAndMap(OpenCreate(st, p, name, FALSE), name, size)

\* shmget(key, size, IPC_CREAT | O_EXCL | 0600) and shmat: O_EXCL is not
\* IPC_EXCL, so an existing segment of the key is returned when it is large
\* enough
SysvGet(st, p, key, size) ==
    IF st.ns[key] # NULL
    THEN IF size <= st.osize[st.ns[key]]
         THEN [rc |-> 0, st |-> st, name |-> key, obj |-> st.ns[key]]
         ELSE [rc |-> -1, st |-> st, name |-> key, obj |-> NULL]
    ELSE IF ValidSize(size)
         THEN LET o == NewObj(st)
              IN [rc |-> 0,
                  st |-> [st EXCEPT !.ns[key] = o, !.osize[o] = size, !.oby[o] = p],
                  name |-> key, obj |-> o]
         ELSE [rc |-> -1, st |-> st, name |-> key, obj |-> NULL]

\* df_shm_method_sysv_create_region: ftok(path, token_id), token_id ++
SysvCreateRegion(st, p, size) ==
    IF ~st.anchor[p]
    THEN [rc |-> -1, st |-> st, name |-> <<>>, obj |-> NULL]
    ELSE SysvGet([st EXCEPT !.token[p] = @ + 1], p, <<"key", p, st.token[p]>>, size)

\* df_shm_method_sysv_create_named_region
SysvCreateNamedRegion(st, p, key, size) == SysvGet(st, p, key, size)

\* method->create_region_func
CreateRegionFunc(st, p, size) ==
    CASE kind = "mmap" -> MmapCreateRegion(st, p, size)
      [] kind = "sysv" -> SysvCreateRegion(st, p, size)
      [] kind = "posix" -> PosixCreateRegion(st, p, size)

\* method->create_named_region_func
CreateNamedRegionFunc(st, p, name, size) ==
    CASE kind = "mmap" -> MmapCreateNamedRegion(st, p, name, size)
      [] kind = "sysv" -> SysvCreateNamedRegion(st, p, name, size)
      [] kind = "posix" -> PosixCreateNamedRegion(st, p, name, size)

\* method->region_contact_func: the file name, the shm name or the key
RegionContact(region) == region.name

\* mmap(addr, size, ...) fails for a length of 0 (EINVAL) and returns
\* MAP_FAILED, which is (void *) -1
MmapRejects(size) == size < 1

\* what the file-backed callbacks make of a failed mmap: they test
\* attach_addr == NULL, which MAP_FAILED is not, and return 0 with no mapping
MmapFailed == [rc |-> 0, obj |-> NULL]

\* method->attach_region_func: open / shm_open without O_CREAT and mmap, or
\* shmget without IPC_CREAT and shmat
AttachRegionFunc(st, name, size) ==
    IF st.ns[name] = NULL THEN [rc |-> -1, obj |-> NULL]
    ELSE IF kind = "sysv"
         THEN IF size > st.osize[st.ns[name]]
              THEN [rc |-> -1, obj |-> NULL]
              ELSE [rc |-> 0, obj |-> st.ns[name]]
         ELSE IF MmapRejects(size)
              THEN MmapFailed
              ELSE [rc |-> 0, obj |-> st.ns[name]]

\* method->detach_region_func: munmap / shmdt of the handle's mapping
DetachRegionFunc(st, p, a) ==
    IF st.hreg[p][a].obj = NULL THEN [rc |-> -1, st |-> st]
    ELSE [rc |-> 0, st |-> [st EXCEPT !.hreg[p][a].obj = NULL]]

\* method->destroy_region_func: munmap then unlink / shm_unlink of the
\* handle's name, or shmdt then shmctl(id, IPC_RMID) of the handle's segment
DestroyRegionFunc(st, p, a) ==
    LET r == st.hreg[p][a]
        d == DetachRegionFunc(st, p, a)
    IN IF d.rc # 0 THEN d
       ELSE IF kind = "sysv"
            THEN IF Mapped(d.st, r.obj) \/ Named(d.st, r.obj)
                 THEN [rc |-> 0,
                       st |-> [d.st EXCEPT !.ns = [n \in Names |->
                                   IF d.st.ns[n] = r.obj THEN NULL ELSE d.st.ns[n]]]]
                 ELSE [rc |-> -1, st |-> d.st]
            ELSE IF d.st.ns[r.name] # NULL
                 THEN [rc |-> 0, st |-> [d.st EXCEPT !.ns[r.name] = NULL]]
                 ELSE [rc |-> -1, st |-> d.st]

\* method->finalize_func: the SysV backend unlinks its key file
FinalizeFunc(st, p) ==
    IF kind # "sysv" THEN [rc |-> 0, st |-> st]
    ELSE IF st.anchor[p] THEN [rc |-> 0, st |-> [st EXCEPT !.anchor[p] = FALSE]]
         ELSE [rc |-> -1, st |-> st]

(***************************************************************************)
(* The region lists and the calls of df_shm.c.                             *)
(***************************************************************************)
\* the outcomes of a read of freed handle memory: the bytes are still there,
\* or the process dies
UbOutcomes == {"retained", "crash"}

\* free(region): the memory keeps what the allocator does not overwrite; of
\* the handle's fields the model keeps next
Free(st, p, a) ==
    Settle([st EXCEPT !.hlive[p] = @ \ {a},
                      !.hreg[p][a] = [NoRegion EXCEPT !.next = st.hreg[p][a].next]])

\* add_region_to_list: insert at the beginning of the list
AddRegionToList(st, p, list, a) ==
    IF list = "created"
    THEN [st EXCEPT !.hreg[p][a].next = st.created[p], !.created[p] = a]
    ELSE [st EXCEPT !.hreg[p][a].next = st.foreign[p], !.foreign[p] = a]

RECURSIVE ListWalk(_, _, _, _, _)
\* the loop of remove_region_from_list: temp runs down the list until it is
\* r or NULL; seen are the nodes whose next was read
ListWalk(nx, temp, last, r, seen) ==
    IF temp = NULL THEN [found |-> FALSE, last |-> last, seen |-> seen, cyc |-> FALSE]
    ELSE IF temp = r THEN [found |-> TRUE, last |-> last, seen |-> seen, cyc |-> FALSE]
    ELSE IF temp \in seen THEN [found |-> FALSE, last |-> last, seen |-> seen, cyc |-> TRUE]
    ELSE ListWalk(nx, nx[temp], temp, r, seen \cup {temp})

\* remove_region_from_list.  A list that was left holding a freed handle
\* makes the loop read freed memory (outcome ub); a list that became cyclic
\* without r on it keeps the loop running for ever.
RemoveRegionFromList(st, p, list, r, ub) ==
    LET head == IF list = "created" THEN st.created[p] ELSE st.foreign[p]
        nx == [a \in Addr |-> st.hreg[p][a].next]
        w == ListWalk(nx, head, NULL, r, {})
    IN IF head = NULL THEN st
       ELSE IF ~(w.seen \subseteq st.hlive[p]) /\ ub = "crash"
            THEN [st EXCEPT !.stat[p] = "crashed"]
       ELSE IF w.cyc THEN [st EXCEPT !.stat[p] = "hung"]
       ELSE IF ~w.found THEN st
       ELSE IF w.last = NULL
            THEN IF list = "created" THEN [st EXCEPT !.created[p] = nx[r]]
                                     ELSE [st EXCEPT !.foreign[p] = nx[r]]
            ELSE [st EXCEPT !.hreg[p][w.last].next = nx[r]]

\* the nodes a walk from head visits
RECURSIVE Reach(_, _, _)
Reach(nx, temp, seen) ==
    IF temp = NULL \/ temp \in seen THEN seen
    ELSE Reach(nx, nx[temp], seen \cup {temp})

\* the handles reachable through a list of process p
OnList(st, p, list) ==
    Reach([a \in Addr |-> st.hreg[p][a].next],
          IF list = "created" THEN st.created[p] ELSE st.foreign[p], {})

\* df_detach_shm_region
DetachShmRegion(st, p, a, ub) ==
    LET d == DetachRegionFunc(st, p, a)
    IN IF d.rc # 0 THEN [rc |-> -1, st |-> Free(d.st, p, a)]
       ELSE LET s1 == RemoveRegionFromList(d.st, p, "foreign", a, ub)
            IN IF s1.stat[p] # "run" THEN [rc |-> -1, st |-> s1]
               ELSE [rc |-> 0,
                     st |-> Free([s1 EXCEPT !.numf[p] = @ - 1], p, a)]

\* df_destroy_shm_region: the creator is told by region->creator_id == getpid()
DestroyShmRegion(st, p, a, ub) ==
    IF st.hreg[p][a].creator_id = p
    THEN LET d == DestroyRegionFunc(st, p, a)
         IN IF d.rc # 0 THEN [rc |-> -1, st |-> Free(d.st, p, a)]
            ELSE LET s1 == RemoveRegionFromList(d.st, p, "created", a, ub)
                 IN IF s1.stat[p] # "run" THEN [rc |-> -1, st |-> s1]
                    ELSE [rc |-> 0, st |-> Free(s1, p, a)]
    ELSE DetachShmRegion(st, p, a, ub)

RECURSIVE FinalizeWalk(_, _, _, _, _, _)
\* the two loops of df_shm_finalize: next = r->next; destroy or detach r;
\* r = next.  A handle freed but still on a list is read after free.
FinalizeWalk(st, p, r, list, fuel, ub) ==
    IF st.stat[p] # "run" THEN st
    ELSE IF r = NULL
         THEN IF list = "created"
              THEN FinalizeWalk(st, p, st.foreign[p], "foreign", fuel, ub)
              ELSE st
    ELSE IF fuel = 0 THEN [st EXCEPT !.stat[p] = "hung"]
    ELSE IF r \notin st.hlive[p]
         THEN IF ub = "crash" THEN [st EXCEPT !.stat[p] = "crashed"]
              ELSE FinalizeWalk(st, p, st.hreg[p][r].next, list, fuel - 1, ub)
    ELSE FinalizeWalk(IF list = "created" THEN DestroyShmRegion(st, p, r, ub).st
                                          ELSE DetachShmRegion(st, p, r, ub).st,
                      p, st.hreg[p][r].next, list, fuel - 1, ub)

RECURSIVE FinalizeFailed(_, _, _, _, _, _)
\* whether a df_destroy_shm_region or df_detach_shm_region call of the two
\* loops returns non-zero (the loops drop the value)
FinalizeFailed(st, p, r, list, fuel, ub) ==
    IF st.stat[p] # "run" THEN FALSE
    ELSE IF r = NULL
         THEN IF list = "created"
              THEN FinalizeFailed(st, p, st.foreign[p], "foreign", fuel, ub)
              ELSE FALSE
    ELSE IF fuel = 0 THEN FALSE
    ELSE IF r \notin st.hlive[p]
         THEN IF ub = "crash" THEN FALSE
              ELSE FinalizeFailed(st, p, st.hreg[p][r].next, list, fuel - 1, ub)
    ELSE LET d == IF list = "created" THEN DestroyShmRegion(st, p, r, ub)
                                      ELSE DetachShmRegion(st, p, r, ub)
         IN \/ d.rc # 0
            \/ FinalizeFailed(d.st, p, st.hreg[p][r].next, list, fuel - 1, ub)

\* df_shm_finalize
ShmFinalize(st, p, ub) ==
    LET s1 == FinalizeWalk(st, p, st.created[p], "created", 2 * MaxRegions + 2, ub)
        f == FinalizeFunc(s1, p)
    IN IF s1.stat[p] # "run" THEN [rc |-> -1, st |-> s1]
       ELSE IF f.rc # 0 THEN [rc |-> -1, st |-> f.st]
       ELSE [rc |-> 0, st |-> [f.st EXCEPT !.stat[p] = "finalized"]]

(***************************************************************************)
(* The calls of the region manager as actions.                             *)
(***************************************************************************)
SetShm(st) ==
    /\ kind' = kind
    /\ stat' = st.stat /\ hlive' = st.hlive /\ hreg' = st.hreg
    /\ created' = st.created /\ foreign' = st.foreign
    /\ numc' = st.numc /\ numf' = st.numf
    /\ token' = st.token /\ counter' = st.counter /\ anchor' = st.anchor
    /\ ns' = st.ns /\ osize' = st.osize /\ oby' = st.oby

\* the tail of the create and attach calls: fill the handle and put it on
\* its list
NewHandle(st, p, a, list, cid, size, name, obj) ==
    AddRegionToList(
        [st EXCEPT !.hlive[p] = @ \cup {a},
                   !.hreg[p][a] = [creator_id |-> cid, size |-> size,
                                   name |-> name, obj |-> obj,
                                   attached |-> (list = "foreign"),
                                   next |-> @.next]],
        p, list, a)

\* what the system must still be able to give a creating call
CanCreate(p) ==
    /\ p \in Creators
    /\ stat[p] = "run" /\ numc[p] < MaxCalls
    /\ FreeObjs(St) # {}
    /\ token[p] <= MaxCalls

\* a df_create_shm_region that lists and counts the handle before it calls
\* the backend, and does not take it back when the callback fails
DfCreateShmRegionListsFirst(p) ==
    /\ CanCreate(p)
    /\ \E size \in RegionSizes \cup {HugeSize} : \E a \in Addr \ hlive[p] :
         LET c == CreateRegionFunc(St, p, size)
         IN /\ SetShm(NewHandle([c.st EXCEPT !.numc[p] = @ + 1], p, a,
                                 "created", p, size, c.name, c.obj))
            /\ ret' = [pid |-> p, op |-> "create",
                       rc |-> IF c.rc # 0 THEN NULL ELSE a, failed |-> c.rc # 0]
    /\ UNCHANGED <<qvars, lay, cross, xch, mk, kg>>

\* df_create_shm_region
DfCreateShmRegion(p) ==
    /\ CanCreate(p)
    /\ \E size \in RegionSizes \cup {HugeSize} : \E a \in Addr \ hlive[p] :
         LET c == CreateRegionFunc(St, p, size)
         IN IF c.rc # 0
            THEN /\ SetShm(Settle(c.st))
                 /\ ret' = [pid |-> p, op |-> "create", rc |-> NULL, failed |-> TRUE]
            ELSE /\ SetShm(NewHandle([c.st EXCEPT !.numc[p] = @ + 1], p, a,
                                     "created", p, size, c.name, c.obj))
                 /\ ret' = [pid |-> p, op |-> "create", rc |-> a, failed |-> FALSE,
                            size |-> size, cid |-> p]
    /\ UNCHANGED <<qvars, lay, cross, xch, mk, kg>>

\* df_create_named_shm_region
DfCreateNamedShmRegion(p) ==
    /\ CanCreate(p)
    /\ \E size \in RegionSizes \cup {HugeSize} : \E a \in Addr \ hlive[p] :
         LET c == CreateNamedRegionFunc(St, p, WellKnown, size)
         IN IF c.rc # 0
            THEN /\ SetShm(Settle(c.st))
                 /\ ret' = [pid |-> p, op |-> "create_named", rc |-> NULL, failed |-> TRUE]
            ELSE /\ SetShm(NewHandle([c.st EXCEPT !.numc[p] = @ + 1], p, a,
                                     "created", p, size, c.name, c.obj))
                 /\ ret' = [pid |-> p, op |-> "create_named", rc |-> a, failed |-> FALSE,
                            size |-> size, cid |-> p]
    /\ UNCHANGED <<qvars, lay, cross, xch, mk, kg>>

\* df_attach_shm_region, with the contact info and the size of a created
\* region b of process q and, as creator id, the pid q of the process that
\* created it (the caller's own pid when it attaches a region of its own
\* process)
DfAttachShmRegion(p) ==
    /\ stat[p] = "run" /\ numf[p] < MaxCalls
    /\ \E q \in Procs : \E b \in hlive[q] : \E cid \in {q} :
       \E a \in Addr \ hlive[p] :
         /\ ~hreg[q][b].attached
         /\ LET name == RegionContact(hreg[q][b])
                size == hreg[q][b].size
                at == AttachRegionFunc(St, name, size)
            IN IF at.rc # 0
               THEN /\ SetShm(St)
                    /\ ret' = [pid |-> p, op |-> "attach", rc |-> NULL, failed |-> TRUE]
               ELSE /\ SetShm(NewHandle([St EXCEPT !.numf[p] = @ + 1], p, a,
                                        "foreign", cid, size, name, at.obj))
                    /\ ret' = [pid |-> p, op |-> "attach", rc |-> a, failed |-> FALSE,
                               size |-> size, cid |-> cid]
    /\ UNCHANGED <<qvars, lay, cross, xch, mk, kg>>

\* df_attach_named_shm_region(method, name, name_size, size, NULL); unlike
\* the creating calls it does not assert size > 0
AttachNamedShmRegion(p, size) ==
    /\ stat[p] = "run" /\ numf[p] < MaxCalls
    /\ \E a \in Addr \ hlive[p] :
         LET at == AttachRegionFunc(St, WellKnown, size)
         IN IF at.rc # 0
            THEN /\ SetShm(St)
                 /\ ret' = [pid |-> p, op |-> "attach_named", rc |-> NULL, failed |-> TRUE]
            ELSE /\ SetShm(NewHandle([St EXCEPT !.numf[p] = @ + 1], p, a,
                                     "foreign", DF_SHM_UNKNOWN_PID, size,
                                     WellKnown, at.obj))
                 /\ ret' = [pid |-> p, op |-> "attach_named", rc |-> a, failed |-> FALSE,
                            size |-> size, cid |-> DF_SHM_UNKNOWN_PID]
    /\ UNCHANGED <<qvars, lay, cross, xch, mk, kg>>

\* df_attach_named_shm_region with a size the system can satisfy
DfAttachNamedShmRegion(p) == \E size \in RegionSizes : AttachNamedShmRegion(p, size)

\* df_attach_named_shm_region with a size of 0
DfAttachNamedShmRegionEmpty(p) == AttachNamedShmRegion(p, 0)

\* df_detach_shm_region on a handle the caller holds
DfDetachShmRegion(p) ==
    /\ stat[p] = "run"
    /\ \E a \in hlive[p] : \E ub \in UbOutcomes :
         LET d == DetachShmRegion(St, p, a, ub)
         IN /\ SetShm(d.st)
            /\ ret' = [pid |-> p, op |-> "detach", rc |-> d.rc, failed |-> d.rc # 0]
    /\ UNCHANGED <<qvars, lay, cross, xch, mk, kg>>

\* df_destroy_shm_region on a handle the caller holds
DfDestroyShmRegion(p) ==
    /\ stat[p] = "run"
    /\ \E a \in hlive[p] : \E ub \in UbOutcomes :
         LET d == DestroyShmRegion(St, p, a, ub)
         IN /\ SetShm(d.st)
            /\ ret' = [pid |-> p, op |-> "destroy", rc |-> d.rc, failed |-> d.rc # 0]
    /\ UNCHANGED <<qvars, lay, cross, xch, mk, kg>>

\* df_shm_finalize
DfShmFinalize(p) ==
    /\ stat[p] = "run"
    /\ \E ub \in UbOutcomes :
         LET f == ShmFinalize(St, p, ub)
         IN /\ SetShm(f.st)
            /\ ret' = [pid |-> p, op |-> "finalize", rc |-> f.rc,
                       failed |-> \/ f.rc # 0
                                  \/ FinalizeFailed(St, p, created[p], "created",
                                                    2 * MaxRegions + 2, ub)]
    /\ UNCHANGED <<qvars, lay, cross, xch, mk, kg>>

\* the region manager under each of its three backends
InitShm == QInit /\ kg = NoKeys /\ lay = NoLayout /\ cross = NoCross /\ xch = NoExchange /\ mk = NoMake /\ \E k \in Kinds : ShmInit(k)

\* one process makes every call; the regions it attaches are its own, as
\* the threads of one process do
NextShm ==
    \/ \E p \in Creators : DfCreateShmRegion(p)
    \/ \E p \in Creators : DfCreateNamedShmRegion(p)
    \/ \E p \in Creators : DfAttachShmRegion(p)
    \/ \E p \in Creators : DfAttachNamedShmRegion(p)
    \/ \E p \in Creators : DfDetachShmRegion(p)
    \/ \E p \in Creators : DfDestroyShmRegion(p)
    \/ \E p \in Creators : DfShmFinalize(p)

SpecShm == InitShm /\ [][NextShm]_vars

\* two processes: one creates and destroys regions, its peer attaches them
\* by their contact info and detaches them
NextPeer ==
    \/ \E p \in Creators : DfCreateShmRegion(p)
    \/ \E p \in Creators : DfDestroyShmRegion(p)
    \/ \E p \in Procs \ Creators : DfAttachShmRegion(p)
    \/ \E p \in Procs \ Creators : DfDetachShmRegion(p)
    \/ \E p \in Procs : DfShmFinalize(p)

SpecPeer == InitShm /\ [][NextPeer]_vars

\* two processes and the well-known name: one creates the named region and
\* destroys it, its peer attaches it by name, with a size or with none, and
\* detaches it
NextNamed ==
    \/ \E p \in Creators : DfCreateNamedShmRegion(p)
    \/ \E p \in Creators : DfDestroyShmRegion(p)
    \/ \E p \in Procs \ Creators : DfAttachNamedShmRegion(p)
    \/ \E p \in Procs \ Creators : DfAttachNamedShmRegionEmpty(p)
    \/ \E p \in Procs \ Creators : DfDetachShmRegion(p)
    \/ \E p \in Procs : DfShmFinalize(p)

SpecNamed == InitShm /\ [][NextNamed]_vars

(***************************************************************************)
(* Properties of the queue.                                                *)
(***************************************************************************)
\* the steps of the two endpoints, recognised from what they change
TryEnqueueStep == ppc = "call_try_enqueue" /\ ppc' # ppc
EnqueueCallStep == ppc = "call_enqueue" /\ ppc' # ppc
TryDequeueStep ==
    /\ cpc = "idle"
    /\ \/ cpc' = "rdsize"
       \/ cret' = RC_TRY_NO_SLOT /\ cret # RC_TRY_NO_SLOT
PublishStep == ppc = "write" /\ "status" \in ppend /\ "status" \notin ppend'
ReleaseStatusStep == cpc = "release" /\ "status" \in cpend /\ "status" \notin cpend'

\* C1 (FIFO delivery): under every interleaving of the two endpoints' steps,
\* at most NumSlots published payloads are unreleased, and whenever the
\* receiver holds a dequeued slot, the length it was given and the bytes it
\* reads through the pointer it was given are those of the oldest published
\* payload not yet released; release retires exactly that payload, so the
\* k-th dequeue returns the k-th enqueue: none lost, duplicated or reordered.
C1_FifoDelivery ==
    /\ Len(inflight) <= NumSlots
    /\ cheld => /\ inflight # <<>>
                /\ clen = Len(Head(inflight))
                /\ Payload = Head(inflight)

C5_StatusMachine ==
    [][ \A i \in 0..(NumSlots - 1) :
          slots'[i].status # slots[i].status =>
             \/ /\ PublishStep /\ i = pidx /\ UNCHANGED cunch
                /\ slots[i].status = SLOT_EMPTY /\ slots'[i].status = SLOT_FULL
             \/ /\ ReleaseStatusStep /\ i = cidx /\ UNCHANGED punch
                /\ slots[i].status = SLOT_FULL /\ slots'[i].status = SLOT_EMPTY ]_vars

\* a slot went EMPTY -> FULL -> EMPTY -> FULL: it is FULL with the sender's
\* cursor past it, and holds a stale byte of an earlier, longer payload
C5_Witness ==
    \E i \in 0..(NumSlots - 1) :
        /\ slots[i].status = SLOT_FULL /\ i # pidx
        /\ slots[i].size < MaxPayload /\ slots[i].data[MaxPayload] # 0

\* C6 (publication ordering): whenever the receiver has observed its current
\* slot FULL (it left the spin loop, or holds the slot), the slot's size and
\* payload are those of the oldest published payload not yet released, also
\* when no fence keeps the sender's stores in program order.
C6_PublicationOrdering ==
    (cpc = "rdsize" \/ cheld) =>
        /\ inflight # <<>>
        /\ cpc = "rdsize" =>
              /\ slots[cidx].size = Len(Head(inflight))
              /\ [i \in 1..slots[cidx].size |-> slots[cidx].data[i]] = Head(inflight)
        /\ cheld => (clen = Len(Head(inflight)) /\ Payload = Head(inflight))

(***************************************************************************)
(* Properties of the region manager.                                       *)
(***************************************************************************)
\* C7 (contact round-trip): when the peer's attach with the contact info and
\* the size s of a region its creator still holds succeeds, the new handle
\* maps the backing object the creator's region maps, and that object holds
\* at least s bytes, so that a write of either side at any offset below s
\* reaches the other; for each of the three backends.
C7_ContactRoundTrip ==
    [][ \A q \in Procs \ Creators : \A a \in Addr :
          (a \notin hlive[q] /\ a \in hlive'[q]) =>
             \A p \in Creators : \A b \in hlive[p] :
                ( /\ ~hreg[p][b].attached
                  /\ RegionContact(hreg[p][b]) = hreg'[q][a].name
                  /\ hreg[p][b].size = hreg'[q][a].size )
                => /\ hreg'[q][a].obj = hreg[p][b].obj
                   /\ osize'[hreg'[q][a].obj] >= hreg[p][b].size ]_vars

\* C8 (finalize cleanup): when df_shm_finalize has returned 0 and freed the
\* method handle, every region handle of the process is freed, no name of the
\* system (temp file, shm name, segment key) is bound to an object created
\* through the handle, and the backend's key file is gone; for each backend.
C8_FinalizeCleanup ==
    [][ \A p \in Procs :
          (stat[p] = "run" /\ stat'[p] = "finalized") =>
             /\ hlive'[p] = {}
             /\ ~anchor'[p]
             /\ \A n \in Names : ns'[n] # NULL => oby'[ns'[n]] # p ]_vars

\* C9 (R1): in every state the calls of a running process lead to, each of
\* its region handles is reachable through exactly one of the created list
\* and the attached list.
C9_OneListEach ==
    \A p \in Procs :
        stat[p] = "run" =>
           \A a \in hlive[p] :
              (a \in OnList(St, p, "created")) # (a \in OnList(St, p, "foreign"))

\* C10 (R2): a call that gives up a handle obtained by attach or attach_named
\* (df_destroy_shm_region or df_detach_shm_region) only detaches: every name
\* of the system stays bound to its backing object.
C10_DestroyOnlyOwn ==
    [][ \A p \in Procs : \A a \in Addr :
          ( /\ stat[p] = "run" /\ stat'[p] = "run"
            /\ a \in hlive[p] /\ hreg[p][a].attached
            /\ a \notin hlive'[p] )
          => ns' = ns ]_vars

\* the creating and attaching calls
OpensRegion == {"create", "create_named", "attach", "attach_named"}

\* C11 (failed create / attach): a create, create_named, attach or
\* attach_named call whose backend callback reports failure returns a null
\* handle and leaves both region lists (their heads, and the links and the
\* liveness of every handle) and both region counts as they were.
C11_FailedOpenLeavesLists ==
    [][ (ret'.op \in OpensRegion /\ ret'.failed) =>
           /\ ret'.rc = NULL
           /\ created' = created /\ foreign' = foreign
           /\ numc' = numc /\ numf' = numf
           /\ hlive' = hlive
           /\ \A p \in Procs : \A a \in Addr :
                  hreg'[p][a].next = hreg[p][a].next ]_vars

\* an attach has failed in a process that still holds one of the two regions
\* it created
C11_Witness ==
    /\ ret.op = "attach" /\ ret.failed /\ ret.rc = NULL
    /\ numc[ret.pid] = 2
    /\ created[ret.pid] \in hlive[ret.pid]
    /\ ~hreg[ret.pid][created[ret.pid]].attached

\* C12 (failed destroy): a df_destroy_shm_region call whose backend destroy
\* reports failure returns non-zero and leaves the handle allocated and on
\* its list (heads and links as they were), for a later df_shm_finalize to
\* visit.
C12_FailedDestroyKeepsHandle ==
    [][ (ret'.op = "destroy" /\ ret'.failed /\ stat'[ret'.pid] = "run") =>
           /\ ret'.rc # 0
           /\ hlive' = hlive
           /\ created' = created /\ foreign' = foreign
           /\ \A p \in Procs : \A a \in Addr :
                  hreg'[p][a].next = hreg[p][a].next ]_vars

\* C13 (finalize completes and reports): a df_shm_finalize that returns has
\* visited every handle of the created list and of the attached list (none
\* of them is left allocated), also when some destroy or detach failed, and
\* it returns non-zero exactly when a destroy, a detach or the backend
\* finalize failed.
C13_FinalizeReportsFailure ==
    [][ (ret'.op = "finalize" /\ stat'[ret'.pid] \in {"run", "finalized"}) =>
           /\ \A a \in hlive[ret'.pid] :
                 (a \in OnList(St, ret'.pid, "created") \cup OnList(St, ret'.pid, "foreign"))
                    => a \notin hlive'[ret'.pid]
           /\ (ret'.rc # 0) <=> ret'.failed ]_vars

\* C14 (backend failure policy): no failure of an OS call is reported as
\* success: a create, create_named, attach or attach_named call that returns
\* a handle has mapped a backing object into the caller, for each backend.
C14_NoFailureAsSuccess ==
    [][ (ret'.op \in OpensRegion /\ ret'.rc # NULL) =>
           hreg'[ret'.pid][ret'.rc].obj # NULL ]_vars


(***************************************************************************)
(* Laying a queue out: the caller asks df_calculate_queue_size how many    *)
(* bytes to provision, df_create_queue writes the header and every slot's  *)
(* status and size, and df_internal_get_queue_ep computes the address of   *)
(* every slot.  Offsets are counted from addr and are exact.               *)
(***************************************************************************)
\* the values of max_num_slots tried: they fit the int the loops count in
SlotCounts == {1, 2, 3, 256, 65536, 2147483647}

\* the values of max_payload_size tried
PayloadSizes ==
    {FromNat(x) : x \in {1, 47, 48, 49, 112, 4096}}
        \cup {Pow2(k) : k \in {32, 33, 62, 63}}
        \cup {SizeMaxMinus(d) : d \in {0, 15, 16, 80}}

\* the slots whose addresses are followed: the first two and the last
SlotIndices(n) == {0, n - 1} \cup (IF n > 1 THEN {1} ELSE {})

\* slots_start + i * queue->slot_size, as an offset from addr
SlotOffset(i, slot_size) ==
    Add(FromNat(SizeofQueue), Wrap(Mul(FromNat(i), slot_size)))

\* the bytes of the header, <<first, one past the last>>
HeaderBytes == <<FromNat(0), FromNat(SizeofQueue)>>

\* the bytes of the status and size of slot i
SlotFieldBytes(i, slot_size) ==
    <<SlotOffset(i, slot_size), Add(SlotOffset(i, slot_size), FromNat(SizeofSlot))>>

\* the bytes of slot i an endpoint addresses: status, size and a payload of
\* up to max_payload_size bytes
SlotBytes(off, max_payload_size) ==
    <<off, Add(Add(off, FromNat(SizeofSlot)), max_payload_size)>>

InitSize ==
    /\ QInit
    /\ ShmInit("mmap")
    /\ cross = NoCross /\ xch = NoExchange /\ mk = NoMake /\ kg = NoKeys
    /\ \E n \in SlotCounts : \E p \in PayloadSizes :
          lay = [pc |-> "args", n |-> n, p |-> p]

DfCalculateQueueSize ==
    /\ lay.pc = "args"
    /\ lay' = [pc |-> "sized", n |-> lay.n, p |-> lay.p,
               size |-> CalculateQueueSize(FromNat(lay.n), lay.p)]
    /\ UNCHANGED <<qvars, shmvars, cross, xch, mk>>

DfCreateQueue ==
    /\ lay.pc = "sized"
    /\ LET slot_size == CalculateSlotSize(lay.p)
       IN lay' = [pc |-> "created", n |-> lay.n, p |-> lay.p, size |-> lay.size,
                  max_num_slots |-> lay.n,
                  max_payload_size |-> lay.p,
                  slot_size |-> slot_size,
                  total_size |-> CalculateQueueSize(FromNat(lay.n), lay.p),
                  written |-> {HeaderBytes} \cup
                              {SlotFieldBytes(i, slot_size) : i \in SlotIndices(lay.n)}]
    /\ UNCHANGED <<qvars, shmvars, cross, xch, mk>>

DfInternalGetQueueEp ==
    /\ lay.pc = "created"
    /\ lay' = [pc |-> "ep", n |-> lay.n, p |-> lay.p, size |-> lay.size,
               max_num_slots |-> lay.max_num_slots,
               max_payload_size |-> lay.max_payload_size,
               slot_size |-> lay.slot_size,
               total_size |-> lay.total_size,
               written |-> lay.written,
               slot_index |-> 0,
               slots |-> [i \in SlotIndices(lay.max_num_slots) |->
                             SlotOffset(i, lay.slot_size)]]
    /\ UNCHANGED <<qvars, shmvars, cross, xch, mk>>

NextSize == DfCalculateQueueSize \/ DfCreateQueue \/ DfInternalGetQueueEp

SpecSize == InitSize /\ [][NextSize]_vars

\* C15: for every n > 0 and p > 0 the slot size is the slot overhead plus p
\* rounded up to the next multiple of 64, df_calculate_queue_size returns
\* the size of the header plus n times that slot size, and df_create_queue
\* stores these two values with max_num_slots = n and max_payload_size = p.
C15_SizeComputation ==
    LET slot  == RoundUp(Add(FromNat(SizeofSlot), lay.p))
        total == Add(FromNat(SizeofQueue), Mul(FromNat(lay.n), slot))
    IN /\ lay.pc \in {"sized", "created", "ep"} => lay.size = total
       /\ lay.pc \in {"created", "ep"} =>
             /\ lay.slot_size = slot
             /\ lay.total_size = total
             /\ lay.max_num_slots = lay.n
             /\ lay.max_payload_size = lay.p

\* C16: every byte df_create_queue writes, and every status, size and
\* payload byte of a slot an endpoint addresses, lies below
\* addr + df_calculate_queue_size(n, p).
C16_NoOutOfBounds ==
    /\ lay.pc \in {"created", "ep"} =>
          \A e \in lay.written : Leq(e[2], lay.size)
    /\ lay.pc = "ep" =>
          \A i \in DOMAIN lay.slots :
             Leq(SlotBytes(lay.slots[i], lay.max_payload_size)[2], lay.size)


\* C17: df_try_enqueue_vector and df_try_dequeue never block: a call that
\* has been entered returns, whatever the state of the queue and whatever
\* the peer does, also when the peer never runs again.
C17_TryNeverBlocks ==
    /\ (ppc = "call_try_enqueue") ~> (ppc = "idle")
    /\ (cpc = "rdsize") ~> (cpc = "idle")

\* a try_enqueue has returned on a full queue whose receiver never ran
C17_Witness ==
    /\ ppc = "idle" /\ pret = RC_TRY_NO_SLOT
    /\ ~cep
    /\ \A i \in 0..(NumSlots - 1) : slots[i].status = SLOT_FULL

\* the lists of process p hold live handles only, and no handle twice
ListsSound(p) ==
    /\ OnList(St, p, "created") \cup OnList(St, p, "foreign") \subseteq hlive[p]
    /\ OnList(St, p, "created") \cap OnList(St, p, "foreign") = {}

\* C18: the creator of a region, like a process that attached it, can call
\* df_detach_shm_region on its handle: a call that returns 0 has unmapped
\* the view, taken the handle off the list that held it, and left the
\* lists holding live handles only and the count of attached regions equal
\* to what it was, less one if the handle was an attached one.
C18_DetachByEither ==
    [][ \A p \in Procs :
          ( /\ ret'.pid = p /\ ret'.op = "detach" /\ ret'.rc = 0
            /\ hlive' # hlive
            /\ ListsSound(p) ) =>
          \A a \in hlive[p] \ hlive'[p] :
             /\ a \notin OnList(St, p, "created")'
             /\ a \notin OnList(St, p, "foreign")'
             /\ ListsSound(p)'
             /\ numf'[p] >= 0
             /\ numf'[p] = numf[p] - (IF a \in OnList(St, p, "foreign") THEN 1 ELSE 0)
      ]_vars

(***************************************************************************)
(* A contact descriptor between backends.  The descriptor is the bytes the *)
(* backend's region_contact callback returns; df_attach_shm_region hands   *)
(* the pointer to the attach callback of the caller's own backend, which   *)
(* reads it in its own format: the file-backed callback as a path that     *)
(* ends at the first zero byte, the SysV callback as a key_t in its first  *)
(* four bytes.                                                             *)
(***************************************************************************)
\* the bytes of "/tmp", with which every path made from base_path begins
TmpPrefix == <<47, 116, 109, 112>>

\* the paths of backing files: two that mkstemp makes, and "A", a name an
\* application gives to df_create_named_shm_region
FileNames == {TmpPrefix \o <<46, 49>>, TmpPrefix \o <<46, 50>>, <<65>>}

\* the keys of segments, as the four bytes of a key_t with the least
\* significant first: one that ftok makes, and 0x41 and 0x706d742f, keys an
\* application gives to df_create_named_shm_region
SysvKeys == {<<23, 1, 8, 1>>, <<65, 0, 0, 0>>, TmpPrefix}

\* the bytes of a size_t
SizeBytes(size) == <<size>> \o [i \in 1..(SizeTBytes - 1) |-> 0]

RECURSIVE CStr(_)
\* the string at the start of bytes: the bytes before the first zero byte,
\* and whether a zero byte ends it within bytes
CStr(bytes) ==
    IF bytes = <<>> THEN [str |-> <<>>, ended |-> FALSE]
    ELSE IF Head(bytes) = 0 THEN [str |-> <<>>, ended |-> TRUE]
    ELSE LET t == CStr(Tail(bytes))
         IN [str |-> <<Head(bytes)>> \o t.str, ended |-> t.ended]

\* a is the beginning of b
IsPrefix(a, b) == Len(a) <= Len(b) /\ SubSeq(b, 1, Len(a)) = a

\* df_shm_method_mmap_create_region / _create_named_region: the backing file
MmapBackingFile ==
    /\ \E name \in FileNames \ cross.files :
          cross' = [cross EXCEPT !.files = @ \cup {name}]
    /\ UNCHANGED <<qvars, shmvars, lay, xch, mk>>

\* df_shm_method_sysv_create_region / _create_named_region: the segment
SysvSegment ==
    /\ \E key \in SysvKeys \ cross.segs :
          cross' = [cross EXCEPT !.segs = @ \cup {key}]
    /\ UNCHANGED <<qvars, shmvars, lay, xch, mk>>

\* df_shm_method_mmap_region_contact: file name, '\0', file length
MmapRegionContact ==
    /\ \E name \in cross.files : \E size \in RegionSizes :
          cross' = [cross EXCEPT !.desc = name \o <<0>> \o SizeBytes(size),
                                 !.from = "mmap", !.by = "none", !.rc = 0]
    /\ UNCHANGED <<qvars, shmvars, lay, xch, mk>>

\* df_shm_method_sysv_region_contact: the key, sizeof(int) bytes
SysvRegionContact ==
    /\ \E key \in cross.segs :
          cross' = [cross EXCEPT !.desc = key,
                                 !.from = "sysv", !.by = "none", !.rc = 0]
    /\ UNCHANGED <<qvars, shmvars, lay, xch, mk>>

\* df_shm_method_mmap_attach_region on the descriptor: open(file_name,
\* O_RDWR) of the string at contact_info.  A descriptor with no zero byte
\* makes open read past the descriptor's allocation: the path is then the
\* descriptor followed by whatever bytes lie behind it
MmapAttachRegion ==
    /\ cross.from # "none"
    /\ LET s == CStr(cross.desc)
       IN \E rc \in {0, -1} :
             /\ IF s.ended
                THEN rc = 0 <=> s.str \in cross.files
                ELSE rc = 0 => \E f \in cross.files : IsPrefix(s.str, f)
             /\ cross' = [cross EXCEPT !.by = "mmap", !.rc = rc]
    /\ UNCHANGED <<qvars, shmvars, lay, xch, mk>>

\* df_shm_method_sysv_attach_region on the descriptor:
\* shmget(*(key_t *) contact_info, size, 0600)
SysvAttachRegion ==
    /\ cross.from # "none"
    /\ LET key == SubSeq(cross.desc, 1, Uint32Bytes)
       IN cross' = [cross EXCEPT !.by = "sysv",
                                 !.rc = IF key \in cross.segs THEN 0 ELSE -1]
    /\ UNCHANGED <<qvars, shmvars, lay, xch, mk>>

InitCross == QInit /\ kg = NoKeys /\ ShmInit("mmap") /\ lay = NoLayout /\ cross = NoCross /\ xch = NoExchange /\ mk = NoMake

NextCross ==
    \/ MmapBackingFile \/ SysvSegment
    \/ MmapRegionContact \/ SysvRegionContact
    \/ MmapAttachRegion \/ SysvAttachRegion

SpecCross == InitCross /\ [][NextCross]_vars

\* C19: a contact descriptor produced by a SysV region always makes a
\* file-backed attach fail, and one produced by a file-backed region always
\* makes a SysV attach fail.
C19_CrossBackendIsolation ==
    (cross.by # "none" /\ cross.by # cross.from) => cross.rc # 0

\* the returns that move a cursor
EnqueueSucceeds == ppc = "write" /\ ppc' = "idle"
ReleaseReturns == cpc = "release" /\ cpc' = "idle"

\* C20: every endpoint starts with cursor 0; the producer cursor becomes
\* (cursor + 1) mod n on exactly each successful enqueue or try_enqueue and
\* is left alone by a failed one and by is_enqueue_possible; the consumer
\* cursor becomes (cursor + 1) mod n on exactly each release and is left
\* alone by dequeue, try_dequeue and is_dequeue_possible; both stay in
\* 0..n-1.
C20_CursorDiscipline ==
    [][ /\ (~pep /\ pep') => pidx' = 0
        /\ (~cep /\ cep') => cidx' = 0
        /\ pep => IF EnqueueSucceeds THEN pidx' = (pidx + 1) % NumSlots /\ pret' = RC_OK
                               ELSE pidx' = pidx
        /\ cep => IF ReleaseReturns THEN cidx' = (cidx + 1) % NumSlots
                               ELSE cidx' = cidx
        /\ pret' \in {RC_ENQ_TOO_BIG, RC_TRY_NO_SLOT, RC_TRY_TOO_BIG} => pidx' = pidx
        /\ pidx' \in 0..(NumSlots - 1) /\ cidx' \in 0..(NumSlots - 1) ]_vars

\* both cursors have advanced, the producer's round the queue, and a
\* try_enqueue has then failed on a full slot
C20_Witness ==
    /\ pidx = 1 /\ cidx = 1
    /\ ppc = "idle" /\ pret = RC_TRY_NO_SLOT
    /\ cpc = "idle" /\ ~cheld
    /\ Len(inflight) = NumSlots

\* the return of a df_dequeue or of a df_try_dequeue that found its slot FULL
DequeueReturns == cpc = "rdsize" /\ cpc' = "idle"

\* C21: a successful dequeue or try_dequeue leaves the slot FULL with its
\* size and payload as they were, so a dequeue repeated without a release
\* returns the same slot and the same length; only release zeroes the
\* size, sets the status to EMPTY and moves the consumer to the next slot.
C21_PeekThenRelease ==
    [][ /\ DequeueReturns =>
              /\ slots' = slots
              /\ slots'[cidx].status = SLOT_FULL
              /\ cidx' = cidx
              /\ cheld => clen' = clen
        /\ ReleaseReturns =>
              /\ slots'[cidx].size = 0
              /\ slots'[cidx].status = SLOT_EMPTY
              /\ cidx' = (cidx + 1) % NumSlots
      ]_vars

(***************************************************************************)
(* Two peers and two queues, as the send-receive test and the latency      *)
(* test use them: A sends on queue 1 and receives on queue 2, B receives   *)
(* on queue 1 and sends on queue 2.  Every message is one byte, A's the    *)
(* byte 'a' and B's the byte 'b'.  The calls are df_enqueue, df_dequeue    *)
(* and df_release, with their stores as in the queue above.                *)
(***************************************************************************)
\* the largest number of messages each peer sends
MaxMsgs == 3

Peers == {"A", "B"}
Patterns == {"phased", "pingpong"}

\* the queue a peer sends on, and the one it receives on
SendQ(x) == IF x = "A" THEN 1 ELSE 2
RecvQ(x) == IF x = "A" THEN 2 ELSE 1

\* memset(send_buf, 'a', msg_size) in A, 'b' in B; recv_buf the other way
SendByte(x) == IF x = "A" THEN 97 ELSE 98
RecvByte(x) == IF x = "A" THEN 98 ELSE 97

\* where a peer that has sent and received so many messages goes on: the
\* loops of the phased test, and the send-recv loop of the latency test
\* with its mirror in the peer
PeerGoto(pattern, x, m, sent, rcvd) ==
    IF pattern = "phased"
    THEN IF x = "A"
         THEN IF sent < m THEN "enq_spin" ELSE IF rcvd < m THEN "deq_spin" ELSE "done"
         ELSE IF rcvd < m THEN "deq_spin" ELSE IF sent < m THEN "enq_spin" ELSE "done"
    ELSE IF x = "A"
         THEN IF sent > rcvd THEN "deq_spin" ELSE IF sent < m THEN "enq_spin" ELSE "done"
         ELSE IF rcvd > sent THEN "enq_spin" ELSE IF rcvd < m THEN "deq_spin" ELSE "done"

NewPeer(pattern, x, m) ==
    [pc |-> PeerGoto(pattern, x, m, 0, 0), sent |-> 0, rcvd |-> 0,
     sidx |-> 0, ridx |-> 0, pend |-> {}, ok |-> TRUE]

InitExchange ==
    /\ QInit /\ ShmInit("mmap") /\ lay = NoLayout /\ cross = NoCross /\ mk = NoMake /\ kg = NoKeys
    /\ \E pattern \in Patterns : \E n \in 1..NumSlots : \E m \in 1..MaxMsgs :
          xch = [pc |-> "run", pattern |-> pattern, n |-> n, m |-> m,
                 q |-> [k \in 1..2 |-> [i \in 0..(n - 1) |-> EmptySlot]],
                 peer |-> [x \in Peers |-> NewPeer(pattern, x, m)]]

\* the stores of df_enqueue_vector and of df_release, in program order
EnqueueStores == <<"data", "size", "status">>
ReleaseStores == <<"size", "status">>

\* the store f may be performed next: any pending one, or in program order
\* the first of order that is pending
MayStore(f, pend, order, inorder) ==
    /\ f \in pend
    /\ inorder => \A k \in 1..Len(order) :
                     order[k] = f => \A j \in 1..(k - 1) : order[j] \notin pend

\* while(current_slot->status != SLOT_EMPTY) { } of df_enqueue_vector
PeerEnqueueSpin(x) ==
    /\ xch.pc = "run" /\ xch.peer[x].pc = "enq_spin"
    /\ xch.q[SendQ(x)][xch.peer[x].sidx].status = SLOT_EMPTY
    /\ xch' = [xch EXCEPT !.peer[x].pc = "enq_write",
                          !.peer[x].pend = {"data", "size", "status"}]
    /\ UNCHANGED <<qvars, shmvars, lay, cross, mk>>

\* one of the stores of df_enqueue_vector; after the last the cursor
\* advances, the call returns 0 and the loop of the test goes on
PeerEnqueueStore(x, inorder) ==
    /\ xch.pc = "run" /\ xch.peer[x].pc = "enq_write"
    /\ \E f \in xch.peer[x].pend :
         LET me == xch.peer[x]
             left == me.pend \ {f}
             slot == xch.q[SendQ(x)][me.sidx]
             stored == CASE f = "data" ->
                              [slot EXCEPT !.data = [i \in 1..MaxPayload |-> SendByte(x)]]
                         [] f = "size" -> [slot EXCEPT !.size = MaxPayload]
                         [] f = "status" -> [slot EXCEPT !.status = SLOT_FULL]
         IN /\ MayStore(f, me.pend, EnqueueStores, inorder)
            /\ xch' = [xch EXCEPT
                          !.q[SendQ(x)][me.sidx] = stored,
                          !.peer[x] =
                             IF left # {} THEN [me EXCEPT !.pend = left]
                             ELSE [me EXCEPT !.pend = {},
                                             !.sidx = (me.sidx + 1) % xch.n,
                                             !.sent = me.sent + 1,
                                             !.pc = PeerGoto(xch.pattern, x, xch.m,
                                                             me.sent + 1, me.rcvd)]]
    /\ UNCHANGED <<qvars, shmvars, lay, cross, mk>>

\* while(current_slot->status != SLOT_FULL) { } of df_dequeue
PeerDequeueSpin(x) ==
    /\ xch.pc = "run" /\ xch.peer[x].pc = "deq_spin"
    /\ xch.q[RecvQ(x)][xch.peer[x].ridx].status = SLOT_FULL
    /\ xch' = [xch EXCEPT !.peer[x].pc = "deq_read"]
    /\ UNCHANGED <<qvars, shmvars, lay, cross, mk>>

\* df_dequeue returns the slot's data and size; the test compares them
\* with msg_size and recv_buf and exits on a mismatch, else calls df_release
PeerDequeueCheck(x) ==
    /\ xch.pc = "run" /\ xch.peer[x].pc = "deq_read"
    /\ LET me == xch.peer[x]
           slot == xch.q[RecvQ(x)][me.ridx]
       IN IF /\ slot.size = MaxPayload
             /\ \A i \in 1..MaxPayload : slot.data[i] = RecvByte(x)
          THEN xch' = [xch EXCEPT !.peer[x].pc = "rel_write",
                                  !.peer[x].pend = {"size", "status"}]
          ELSE xch' = [xch EXCEPT !.peer[x].pc = "exit", !.peer[x].ok = FALSE]
    /\ UNCHANGED <<qvars, shmvars, lay, cross, mk>>

\* one of the stores of df_release; after the last the cursor advances
PeerReleaseStore(x, inorder) ==
    /\ xch.pc = "run" /\ xch.peer[x].pc = "rel_write"
    /\ \E f \in xch.peer[x].pend :
         LET me == xch.peer[x]
             left == me.pend \ {f}
             slot == xch.q[RecvQ(x)][me.ridx]
             stored == IF f = "size" THEN [slot EXCEPT !.size = 0]
                       ELSE [slot EXCEPT !.status = SLOT_EMPTY]
         IN /\ MayStore(f, me.pend, ReleaseStores, inorder)
            /\ xch' = [xch EXCEPT
                          !.q[RecvQ(x)][me.ridx] = stored,
                          !.peer[x] =
                             IF left # {} THEN [me EXCEPT !.pend = left]
                             ELSE [me EXCEPT !.pend = {},
                                             !.ridx = (me.ridx + 1) % xch.n,
                                             !.rcvd = me.rcvd + 1,
                                             !.pc = PeerGoto(xch.pattern, x, xch.m,
                                                             me.sent, me.rcvd + 1)]]
    /\ UNCHANGED <<qvars, shmvars, lay, cross, mk>>

\* the steps of peer x, with the stores of a call in any order
PeerRuns(x) ==
    \/ PeerEnqueueSpin(x) \/ PeerEnqueueStore(x, FALSE)
    \/ PeerDequeueSpin(x) \/ PeerDequeueCheck(x) \/ PeerReleaseStore(x, FALSE)

\* the same with every store in program order
PeerRunsOrdered(x) ==
    \/ PeerEnqueueSpin(x) \/ PeerEnqueueStore(x, TRUE)
    \/ PeerDequeueSpin(x) \/ PeerDequeueCheck(x) \/ PeerReleaseStore(x, TRUE)

NextExchange == \E x \in Peers : PeerRuns(x)

NextExchangeOrdered == \E x \in Peers : PeerRunsOrdered(x)

\* both peers are scheduled fairly
SpecExchange ==
    InitExchange /\ [][NextExchange]_vars /\ \A x \in Peers : WF_vars(PeerRuns(x))

SpecExchangeOrdered ==
    /\ InitExchange /\ [][NextExchangeOrdered]_vars
    /\ \A x \in Peers : WF_vars(PeerRunsOrdered(x))

\* C22: with two queues between A and B, the ping-pong pattern and the
\* phased pattern complete for every message count: both peers reach the
\* end of their loops, each has received exactly as many messages as the
\* other sent, and every payload and length received was the one sent.
C22_ExchangeCompletes ==
    <>[](\A x \in Peers : /\ xch.peer[x].pc = "done"
                          /\ xch.peer[x].rcvd = xch.m
                          /\ xch.peer[x].sent = xch.m
                          /\ xch.peer[x].ok)

(***************************************************************************)
(* df_create_queue store by store, on the fresh (zero-filled) memory of a  *)
(* region, while a peer that maps the region calls                         *)
(* df_get_queue_sender_ep / df_get_queue_receiver_ep on the same address.  *)
(* A store is a pair of the field and, for a slot field, the slot's index  *)
(* (for initialized: the value stored).                                    *)
(***************************************************************************)
\* the stores of df_create_queue(addr, NumSlots, MaxPayload) in program order
SlotStores(i) == <<(<<"status", i>>), (<<"size", i>>)>>

RECURSIVE AllSlotStores(_)
AllSlotStores(i) ==
    IF i = NumSlots THEN <<>> ELSE SlotStores(i) \o AllSlotStores(i + 1)

CreateStores ==
    <<(<<"initialized", 0>>), (<<"max_num_slots", 0>>), (<<"max_payload_size", 0>>),
      (<<"slot_size", 0>>), (<<"total_size", 0>>)>>
        \o AllSlotStores(0) \o <<(<<"initialized", 1>>)>>

\* the memory of a fresh mapping: every byte zero
ZeroHeader ==
    [initialized |-> 0, max_num_slots |-> 0, max_payload_size |-> 0,
     slot_size |-> FromNat(0), total_size |-> FromNat(0)]

\* no endpoint
NoEp == [made |-> FALSE]

InitMake ==
    /\ QInit /\ ShmInit("mmap") /\ lay = NoLayout /\ cross = NoCross
    /\ xch = NoExchange /\ kg = NoKeys
    /\ mk = [pc |-> "fresh", hdr |-> ZeroHeader,
             slots |-> [i \in 0..(NumSlots - 1) |-> [status |-> 0, size |-> 0]],
             pend |-> {}, ep |-> NoEp, refused |-> FALSE]

\* df_create_queue is entered
MakeCall ==
    /\ mk.pc = "fresh"
    /\ mk' = [mk EXCEPT !.pc = "writing",
                        !.pend = {CreateStores[k] : k \in 1..Len(CreateStores)}]
    /\ UNCHANGED <<qvars, shmvars, lay, cross, xch>>

\* what a store of df_create_queue leaves in the memory
Stored(m, f) ==
    CASE f[1] = "initialized" -> [m EXCEPT !.hdr.initialized = f[2]]
      [] f[1] = "max_num_slots" -> [m EXCEPT !.hdr.max_num_slots = NumSlots]
      [] f[1] = "max_payload_size" -> [m EXCEPT !.hdr.max_payload_size = MaxPayload]
      [] f[1] = "slot_size" ->
            [m EXCEPT !.hdr.slot_size = CalculateSlotSize(FromNat(MaxPayload))]
      [] f[1] = "total_size" ->
            [m EXCEPT !.hdr.total_size =
                         CalculateQueueSize(FromNat(NumSlots), FromNat(MaxPayload))]
      [] f[1] = "status" -> [m EXCEPT !.slots[f[2]].status = SLOT_EMPTY]
      [] f[1] = "size" -> [m EXCEPT !.slots[f[2]].size = 0]

\* one store of df_create_queue reaches the memory; after the last the call
\* returns.  No fence or volatile orders the stores, so stores to different
\* locations land in any order; the two stores to initialized keep theirs
MakeStore(inorder) ==
    /\ mk.pc = "writing"
    /\ \E f \in mk.pend :
         /\ MayStore(f, mk.pend, CreateStores, inorder)
         /\ f = <<"initialized", 1>> => <<"initialized", 0>> \notin mk.pend
         /\ mk' = [Stored(mk, f) EXCEPT
                      !.pend = mk.pend \ {f},
                      !.pc = IF mk.pend = {f} THEN "created" ELSE "writing"]
    /\ UNCHANGED <<qvars, shmvars, lay, cross, xch>>

\* the slot stores that have not reached the memory
SlotsPending(m) == {f \in m.pend : f[1] \in {"status", "size"}}

\* df_internal_get_queue_ep in the peer: NULL while initialized reads 0, else
\* an endpoint made from the max_num_slots and slot_size it reads
PeerGetQueueEp ==
    /\ mk.pc \in {"fresh", "writing", "created"}
    /\ ~mk.ep.made
    /\ IF mk.hdr.initialized = 0
       THEN mk' = [mk EXCEPT !.refused = TRUE]
       ELSE mk' = [mk EXCEPT !.ep = [made |-> TRUE,
                                     max_num_slots |-> mk.hdr.max_num_slots,
                                     slot_size |-> mk.hdr.slot_size,
                                     header |-> mk.hdr,
                                     slots |-> mk.slots,
                                     unwritten |-> SlotsPending(mk)]]
    /\ UNCHANGED <<qvars, shmvars, lay, cross, xch>>

NextMake == MakeCall \/ MakeStore(FALSE) \/ PeerGetQueueEp

SpecMake == InitMake /\ [][NextMake]_vars

\* the same on a build and a machine that perform the stores in program order
NextMakeOrdered == MakeCall \/ MakeStore(TRUE) \/ PeerGetQueueEp

SpecMakeOrdered == InitMake /\ [][NextMakeOrdered]_vars

\* the header df_create_queue leaves
MadeHeader ==
    [initialized |-> 1, max_num_slots |-> NumSlots, max_payload_size |-> MaxPayload,
     slot_size |-> CalculateSlotSize(FromNat(MaxPayload)),
     total_size |-> CalculateQueueSize(FromNat(NumSlots), FromNat(MaxPayload))]

\* C23: df_create_queue sets initialized = 1 as its last write, so whenever
\* a peer reads initialized = 1 all capacity fields are set and every slot
\* has been given its status and size; and when df_create_queue has
\* returned every slot is EMPTY with size 0.
C23_ConstructionOrder ==
    /\ mk.pc \in {"writing", "created"} /\ mk.ep.made =>
          /\ mk.ep.header = MadeHeader
          /\ mk.ep.unwritten = {}
          /\ \A i \in 0..(NumSlots - 1) :
                mk.ep.slots[i] = [status |-> SLOT_EMPTY, size |-> 0]
    /\ mk.pc = "created" =>
          /\ mk.hdr = MadeHeader
          /\ \A i \in 0..(NumSlots - 1) :
                mk.slots[i] = [status |-> SLOT_EMPTY, size |-> 0]

\* C24: df_destroy_queue changes only the initialized flag, to 0, and leaves
\* every slot's status, size and payload as they were; while initialized is
\* 0, df_get_queue_sender_ep and df_get_queue_receiver_ep return null and
\* create no endpoint.
C24_DestroyClearsFlagOnly ==
    [][ /\ (initialized = 1 /\ initialized' = 0) =>
              /\ slots' = slots
              /\ UNCHANGED <<punch, cunch, epret>>
        /\ initialized = 0 =>
              /\ initialized' = 0
              /\ pep' = pep /\ cep' = cep
              /\ epret'.sender # epret.sender => epret'.sender = "null"
              /\ epret'.receiver # epret.receiver => epret'.receiver = "null"
      ]_vars

\* the queue was destroyed with a message in it, and the receiver's request
\* for an endpoint was then refused
C24_Witness ==
    /\ initialized = 0
    /\ epret.receiver = "null" /\ ~cep
    /\ pep /\ slots[0].status = SLOT_FULL /\ slots[0].size = MaxPayload

(***************************************************************************)
(* One queue seen by two processes that map its region at different        *)
(* addresses.  Addresses are 64-bit values; pointer arithmetic wraps.      *)
(***************************************************************************)
\* the addresses at which a process may see the queue
Bases == {Pow2(12), Pow2(46), Wrap(Add(Pow2(63), Pow2(62)))}

\* the one's complement of a size_t, and a - b as a size_t
Compl(a) == [i \in 1..Limbs |-> IF i <= SizeTBytes THEN Base - 1 - a[i] ELSE 0]
Sub(a, b) == Wrap(Add(a, Add(Compl(b), FromNat(1))))

\* an endpoint that caches the addresses the creating process computed at
\* its own base
SlotPointerOfCreator(base, i, slot_size) ==
    Wrap(Add(Wrap(Add(Pow2(12), FromNat(SizeofQueue))),
             Wrap(Mul(FromNat(i), slot_size))))

\* ep->slots[i] = (df_queue_slot_t)(slot_start + i * queue->slot_size), with
\* slot_start = queue->slots, for a queue at address base
SlotPointer(base, i, slot_size) ==
    Wrap(Add(Wrap(Add(base, FromNat(SizeofQueue))),
             Wrap(Mul(FromNat(i), slot_size))))

\* df_internal_get_queue_ep in two processes that see the queue at b1 and b2
DfGetQueueEpAt ==
    /\ lay.pc = "created"
    /\ \E b1 \in Bases : \E b2 \in Bases :
          lay' = [pc |-> "mapped", n |-> lay.n, p |-> lay.p, size |-> lay.size,
                  max_num_slots |-> lay.max_num_slots,
                  max_payload_size |-> lay.max_payload_size,
                  slot_size |-> lay.slot_size,
                  total_size |-> lay.total_size,
                  base |-> <<b1, b2>>,
                  ptr |-> [k \in 1..2 |->
                             [i \in SlotIndices(lay.max_num_slots) |->
                                 SlotPointer(IF k = 1 THEN b1 ELSE b2, i, lay.slot_size)]]]
    /\ UNCHANGED <<qvars, shmvars, cross, xch, mk>>

NextBases == DfCalculateQueueSize \/ DfCreateQueue \/ DfGetQueueEpAt

SpecBases == InitSize /\ [][NextBases]_vars

\* C25: for a queue seen at base B, the endpoint's pointer for slot i is
\* B + sizeof(header) + i * slot_size, so two endpoints over the same queue
\* mapped at different bases address the same offset of the region for
\* every slot.
C25_AddressSpaceIndependence ==
    lay.pc = "mapped" =>
       \A i \in SlotIndices(lay.max_num_slots) :
          /\ \A k \in 1..2 :
                lay.ptr[k][i] =
                   Wrap(Add(Add(lay.base[k], FromNat(SizeofQueue)),
                            Mul(FromNat(i), lay.slot_size)))
          /\ Sub(lay.ptr[1][i], lay.base[1]) = Sub(lay.ptr[2][i], lay.base[2])

\* two endpoints at different bases, on a queue of more than two slots
C25_Witness ==
    /\ lay.pc = "mapped"
    /\ lay.base[1] # lay.base[2]
    /\ lay.max_num_slots > 2
    /\ lay.ptr[1][lay.max_num_slots - 1] # lay.ptr[2][lay.max_num_slots - 1]

\* the return of df_is_enqueue_possible and of df_is_dequeue_possible,
\* recognised from what they change: the only calls that return to an idle
\* endpoint from an idle endpoint (df_try_dequeue does too, with -1)
IsEnqueuePossibleReturns == pep /\ ppc = "idle" /\ ppc' = "idle" /\ pret' # pret
IsDequeuePossibleReturns ==
    cep /\ cpc = "idle" /\ cpc' = "idle" /\ cret' # cret /\ cret' # RC_TRY_NO_SLOT

\* C26: df_is_enqueue_possible returns 1 exactly when the status of the slot
\* at the producer's cursor is EMPTY and 0 otherwise; df_is_dequeue_possible
\* returns 1 exactly when the status of the slot at the consumer's cursor is
\* FULL and 0 otherwise; both leave the two cursors and all shared queue
\* memory unchanged.
C26_Predicates ==
    [][ /\ IsEnqueuePossibleReturns =>
              /\ pret' = (IF slots[pidx].status = SLOT_EMPTY THEN 1 ELSE 0)
              /\ UNCHANGED <<pidx, cidx, slots, initialized>>
        /\ IsDequeuePossibleReturns =>
              /\ cret' = (IF slots[cidx].status = SLOT_FULL THEN 1 ELSE 0)
              /\ UNCHANGED <<pidx, cidx, slots, initialized>> ]_vars

\* both predicates have answered 1: the sender's cursor has wrapped to a
\* released slot, the receiver's is at the second published slot
C26_Witness ==
    /\ ppc = "idle" /\ pret = 1 /\ pidx = 0 /\ slots[pidx].status = SLOT_EMPTY
    /\ cpc = "idle" /\ cret = 1 /\ cidx = 1 /\ slots[cidx].status = SLOT_FULL

\* the members of a slot in the region: status, size and the payload area
SlotFields == {"status", "size", "data"}

\* a step stores to member f of slot i
Writes(i, f) == slots'[i][f] # slots[i][f]

\* C27: an enqueue writes only the payload area, size and status of the slot
\* at the producer's cursor; a release writes only the size and status of the
\* slot at the consumer's cursor; dequeue and try_dequeue write nothing in the
\* region; no queue operation writes the queue header or any other slot, and
\* neither cursor is stored in shared memory.
C27_WriteFootprint ==
    [][ /\ \A i \in 0..(NumSlots - 1) : \A f \in SlotFields :
              Writes(i, f) =>
                 \/ ppc = "write" /\ i = pidx /\ f \in ppend
                 \/ cpc = "release" /\ i = cidx /\ f \in cpend /\ f # "data"
        /\ cpc \in {"idle", "spin", "rdsize"} /\ ppc # "write" => slots' = slots
        /\ initialized' = initialized
        /\ \A i \in 0..(NumSlots - 1) : DOMAIN slots'[i] = SlotFields ]_vars

\* an enqueue and a release are both in the middle of their stores, on
\* different slots
C27_Witness ==
    /\ ppc = "write" /\ ppend = {"status"}
    /\ cpc = "release" /\ cpend = {"status"}
    /\ pidx # cidx
    /\ slots[pidx].size > 0

\* the receiver has been handed the slot at its cursor by df_dequeue or
\* df_try_dequeue and has not yet called df_release
HoldsSlot == cheld /\ cpc = "idle"

\* C28: between a successful dequeue (or try_dequeue) of a slot and the
\* consumer's release of it, under every interleaving of producer calls,
\* neither the payload nor the size nor the status of that slot is written,
\* so the pointer and length handed to the consumer stay valid until release.
C28_ZeroCopyStability ==
    [][ HoldsSlot => slots'[cidx] = slots[cidx] ]_vars


(***************************************************************************)
(* The blocking calls against a peer that keeps going.  The status member  *)
(* is a plain uint32_t read in a loop with an empty body, so a build may   *)
(* read it on every turn of the loop or read it once and, if the slot is   *)
(* not in the awaited status, loop on the value it has read.               *)
(***************************************************************************)
\* while(current_slot->status != SLOT_EMPTY) { } built as one read of the
\* status followed by a loop on the value read
EnqueueSpinOnce ==
    /\ ppc = "spin"
    /\ ~SlotIsEmpty(pidx)
    /\ ppc' = "hang"
    /\ UNCHANGED <<shmvars, lay, cross, xch, mk, ve, rel, epret, initialized, slots, pep, pidx, pvec, ppend, pret, cunch, inflight>>

\* while(current_slot->status != SLOT_FULL) { } built the same way
DequeueSpinOnce ==
    /\ cpc = "spin"
    /\ ~SlotIsFull(cidx)
    /\ cpc' = "hang"
    /\ UNCHANGED <<shmvars, lay, cross, xch, mk, ve, rel, epret, initialized, slots, punch, cep, cidx, cheld, clen, cpend,
                   cret, inflight>>

\* a receiver that calls df_dequeue only for a slot it does not hold yet, so
\* that every dequeue is followed by a release
DequeueNext == ~cheld /\ DequeueCall

\* the sender calls what it likes; the receiver performs df_dequeue followed
\* by df_release; every spin loop is built in either way
NextBlock ==
    \/ GetSenderEp \/ GetReceiverEp
    \/ Prepare \/ EnqueueCall \/ EnqueueSpin \/ EnqueueSpinOnce \/ TryEnqueueCall
    \/ EnqueueCopy(FALSE) \/ EnqueueSize(FALSE) \/ EnqueuePublish(FALSE)
    \/ DequeueNext \/ DequeueSpin \/ DequeueSpinOnce \/ DequeueReturn
    \/ ReleaseCall \/ ReleaseSize(FALSE) \/ ReleaseStatus(FALSE)

\* the same on a build and a machine that read the status on every turn of
\* a spin loop and perform every store in program order
NextBlockOrdered ==
    \/ GetSenderEp \/ GetReceiverEp
    \/ Prepare \/ EnqueueCall \/ EnqueueSpin \/ TryEnqueueCall
    \/ EnqueueCopy(TRUE) \/ EnqueueSize(TRUE) \/ EnqueuePublish(TRUE)
    \/ DequeueNext \/ DequeueSpin \/ DequeueReturn
    \/ ReleaseCall \/ ReleaseSize(TRUE) \/ ReleaseStatus(TRUE)

\* the receiver keeps going: it enters its next call and runs the
\* instructions of the call it is in
ReceiverKeepsGoing == DequeueNext \/ ReleaseCall \/ ReceiverRuns

\* weak fairness of both endpoints; the sender is free not to call again
SpecBlock ==
    Init /\ [][NextBlock]_vars /\ WF_vars(SenderRuns) /\ WF_vars(ReceiverKeepsGoing)

SenderRunsOrdered ==
    \/ EnqueueCall \/ EnqueueSpin \/ TryEnqueueCall
    \/ EnqueueCopy(TRUE) \/ EnqueueSize(TRUE) \/ EnqueuePublish(TRUE)

ReceiverKeepsGoingOrdered ==
    \/ DequeueNext \/ ReleaseCall \/ DequeueSpin \/ DequeueReturn
    \/ ReleaseSize(TRUE) \/ ReleaseStatus(TRUE)

SpecBlockOrdered ==
    /\ Init /\ [][NextBlockOrdered]_vars
    /\ WF_vars(SenderRunsOrdered) /\ WF_vars(ReceiverKeepsGoingOrdered)

\* C29: under weak fairness of both endpoints, a blocking enqueue of a
\* payload within the limit eventually returns 0 provided the consumer keeps
\* performing dequeue followed by release, and a blocking dequeue eventually
\* returns 0 provided the producer eventually completes an enqueue; while the
\* peer takes no step and the current slot is FULL (for enqueue) or EMPTY
\* (for dequeue), the blocking call does not return.
C29_BlockingProgress ==
    /\ [](ppc = "spin" /\ cep => <>(ppc = "idle" /\ pret = RC_OK))
    /\ []((cpc = "spin" /\ <>(ppc = "write"))
             => <>(cpc = "idle" /\ cheld /\ cret = RC_OK))
    /\ [][ /\ ppc = "spin" /\ ~SlotIsEmpty(pidx) /\ cunch' = cunch
               => ppc' \in {"spin", "hang"} /\ pret' = RC_PENDING
           /\ cpc = "spin" /\ ~SlotIsFull(cidx) /\ punch' = punch
               => cpc' \in {"spin", "hang"} /\ cret' = RC_PENDING ]_vars

\* process p's list is what it was: the same head and the same links
ListKept(p, list) ==
    /\ IF list = "created" THEN created'[p] = created[p] /\ numc'[p] = numc[p]
                           ELSE foreign'[p] = foreign[p] /\ numf'[p] = numf[p]
    /\ \A b \in OnList(St, p, list) : hreg'[p][b].next = hreg[p][b].next

\* handle a is new at the head of process p's list, in front of the old head
Prepended(p, list, a) ==
    IF list = "created"
    THEN created'[p] = a /\ hreg'[p][a].next = created[p] /\ numc'[p] = numc[p] + 1
    ELSE foreign'[p] = a /\ hreg'[p][a].next = foreign[p] /\ numf'[p] = numf[p] + 1

DestroyFrees(p, a) ==
    ret'.pid = p /\ ret'.op = "destroy" /\ a \in hlive[p] /\ a \notin hlive'[p]

\* C31: df_destroy_shm_region on a handle whose creator_id is the caller's
\* process id calls the backend destroy and on success takes the handle off
\* the created list and returns 0; on any other handle it does exactly what
\* df_detach_shm_region does (backend detach, removal from the attached
\* list, attached count decremented); in both cases the other list is
\* unchanged.
C31_DestroyDispatch ==
    [][ \A p \in Procs : \A a \in Addr :
          DestroyFrees(p, a) =>
             IF hreg[p][a].creator_id = p
             THEN /\ ret'.rc = DestroyRegionFunc(St, p, a).rc
                  /\ ret'.rc = 0 =>
                        /\ IF kind = "sysv" THEN ~Named(St', hreg[p][a].obj)
                                           ELSE ns'[hreg[p][a].name] = NULL
                        /\ a \notin OnList(St, p, "created")'
                        /\ ListKept(p, "foreign")
             ELSE /\ \E ub \in UbOutcomes :
                        /\ St' = DetachShmRegion(St, p, a, ub).st
                        /\ ret'.rc = DetachShmRegion(St, p, a, ub).rc
                  /\ ret'.rc = 0 =>
                        /\ a \notin OnList(St, p, "foreign")'
                        /\ numf'[p] = numf[p] - 1
                        /\ ListKept(p, "created") ]_vars


(***************************************************************************)
(* The keys of one SysV method handle.                                     *)
(***************************************************************************)
\* ftok(path, proj_id) uses the low-order 8 bits of proj_id
ProjIdValues == 256

\* the create_region calls followed on one handle
MaxKeys == ProjIdValues + 1

\* what the malloc'ed m_data->token_id may hold when init returns: init sets
\* a local int token_id = 1 and never stores the member
TokenValues == {0, 1, 2, ProjIdValues - 1}

\* ftok(m_data->path, id) for the one path of the handle
Ftok(id) == id % ProjIdValues

InitKeys ==
    /\ QInit /\ ShmInit("sysv") /\ lay = NoLayout /\ cross = NoCross
    /\ xch = NoExchange /\ mk = NoMake
    /\ kg = [pc |-> "new"]

\* df_shm_method_sysv_init
DfShmMethodSysvInit ==
    /\ kg.pc = "new"
    /\ \E t \in TokenValues : kg' = [pc |-> "ready", token_id |-> t, keys |-> <<>>]
    /\ SetShm(St) /\ ret' = ret
    /\ UNCHANGED <<qvars, lay, cross, xch, mk>>

\* df_shm_method_sysv_create_region: region_data->key = ftok(m_data->path,
\* m_data->token_id); m_data->token_id ++;
DfShmMethodSysvCreateRegion ==
    /\ kg.pc = "ready"
    /\ Len(kg.keys) < MaxKeys
    /\ kg' = [kg EXCEPT !.keys = Append(@, Ftok(kg.token_id)),
                        !.token_id = @ + 1]
    /\ SetShm(St) /\ ret' = ret
    /\ UNCHANGED <<qvars, lay, cross, xch, mk>>

NextKeys == DfShmMethodSysvInit \/ DfShmMethodSysvCreateRegion

SpecKeys == InitKeys /\ [][NextKeys]_vars

\* C32: after init of a SysV method handle the token counter has a defined
\* starting value (the 1 that init names) and increases by exactly one per
\* create_region, and the keys ftok produces for the successive
\* create_region calls of the handle are pairwise distinct.
C32_SysvFreshKeys ==
    /\ [](kg.pc = "ready" =>
            /\ kg.keys = <<>> => kg.token_id = 1
            /\ \A i \in 1..Len(kg.keys) : \A j \in 1..Len(kg.keys) :
                  i # j => kg.keys[i] # kg.keys[j])
    /\ [][kg.pc = "ready" /\ kg'.keys # kg.keys => kg'.token_id = kg.token_id + 1]_vars

\* a creating call of process p has returned handle a in this step
CreateReturns(p, a) ==
    /\ ret'.pid = p /\ ret'.rc = a /\ ~ret'.failed
    /\ ret'.op \in {"create", "create_named"}
    /\ a \notin hlive[p] /\ a \in hlive'[p]

\* C33: create_region and create_named_region of the SysV backend request
\* the segment exclusively: when a segment with the key already exists the
\* create fails with a non-zero status instead of attaching the existing
\* segment, so a create that succeeds found no segment under its key.
C33_SysvExclusiveCreate ==
    [][ \A p \in Procs : \A a \in Addr :
          kind = "sysv" /\ CreateReturns(p, a) =>
             /\ ret'.op = "create_named" => ns[WellKnown] = NULL
             /\ ret'.op = "create" => ns[<<"key", p, token[p]>>] = NULL ]_vars

\* handle a of process p is live and was made by the POSIX create_region
PosixCreated(p, a) ==
    /\ a \in hlive[p] /\ ~hreg[p][a].attached
    /\ hreg[p][a].name # <<>> /\ hreg[p][a].name[1] = "shm"

\* C34: successive create_region calls on one POSIX method handle make
\* pairwise distinct names from the per-process prefix and the counter, so
\* two live regions created through the handle are backed by different named
\* objects (a write to one is not visible through the other, and destroying
\* one leaves the other's name).
C34_PosixDistinctObjects ==
    kind = "posix" =>
       \A p \in Procs : \A a \in Addr : \A b \in Addr :
          PosixCreated(p, a) /\ PosixCreated(p, b) /\ a # b =>
             /\ hreg[p][a].name # hreg[p][b].name
             /\ hreg[p][a].obj # hreg[p][b].obj

(***************************************************************************)
(* One vector enqueue on an empty slot, with iov_len and the sums of       *)
(* iov_len as exact 64-bit values.                                         *)
(***************************************************************************)
\* the buffers of a call
MaxVecCnt == 3

\* the iov_len a caller may pass
IovLens == {FromNat(0), FromNat(1), FromNat(2), Pow2(63), SizeMaxMinus(0)}

\* the iovec lists of a call, as the lists of their iov_len
IovLists == UNION { [1..n -> IovLens] : n \in 1..MaxVecCnt }

RECURSIVE TrueSum(_, _)
\* the sum of the first k iov_len, in the integers
TrueSum(lens, k) == IF k = 0 THEN FromNat(0) ELSE Add(TrueSum(lens, k - 1), lens[k])

RECURSIVE SizeSum(_, _)
\* size_t size = 0; for(i = 0; i < veccnt; i ++) size += vec[i].iov_len;
SizeSum(lens, k) ==
    IF k = 0 THEN FromNat(0) ELSE Wrap(Add(SizeSum(lens, k - 1), lens[k]))

\* the caller passes an iovec list to one of the two calls
VectorCall ==
    /\ ve.pc = "none"
    /\ \E lens \in IovLists : \E call \in {"enqueue", "try_enqueue"} :
          ve' = [pc |-> "called", call |-> call, lens |-> lens]
    /\ UNCHANGED <<shmvars, lay, cross, xch, mk, rel, epret, initialized, slots, punch, cunch, inflight>>

\* df_enqueue_vector / df_try_enqueue_vector on a slot that is EMPTY: the
\* size pre-check, then dest = current_slot->data and for every buffer
\* memcpy(dest, iov_base, iov_len); dest += iov_len; then size and status
DfEnqueueVector ==
    /\ ve.pc = "called"
    /\ LET n == Len(ve.lens)
           size == SizeSum(ve.lens, n)
       IN IF Leq(size, FromNat(MaxPayload))
          THEN ve' = [pc |-> "done", call |-> ve.call, lens |-> ve.lens,
                      rc |-> RC_OK, size |-> size,
                      dest |-> [i \in 1..n |-> SizeSum(ve.lens, i - 1)],
                      written |-> TrueSum(ve.lens, n)]
          ELSE ve' = [pc |-> "done", call |-> ve.call, lens |-> ve.lens,
                      rc |-> IF ve.call = "enqueue" THEN RC_ENQ_TOO_BIG
                                                    ELSE RC_TRY_TOO_BIG,
                      size |-> FromNat(0), dest |-> <<>>, written |-> FromNat(0)]
    /\ UNCHANGED <<shmvars, lay, cross, xch, mk, rel, epret, initialized, slots, punch, cunch, inflight>>

NextVector == VectorCall \/ DfEnqueueVector

SpecVector == Init /\ [][NextVector]_vars

\* C35: for every iovec list the published payload is the concatenation of
\* the buffers in order (each buffer lands where the ones before it end) and
\* the published size is the sum of their lengths; whenever the true sum of
\* the lengths exceeds max_payload_size, also when the sum wraps around the
\* machine word, the call is rejected before any slot byte is written, so
\* the payload area is never written past max_payload_size bytes.
C35_VectorEnqueue ==
    ve.pc = "done" =>
       LET n == Len(ve.lens)
           sum == TrueSum(ve.lens, n)
       IN /\ ve.rc = RC_OK =>
                /\ ve.size = sum
                /\ \A i \in 1..n : ve.dest[i] = TrueSum(ve.lens, i - 1)
          /\ ~Leq(sum, FromNat(MaxPayload)) =>
                ve.rc # RC_OK /\ ve.written = FromNat(0)
          /\ Leq(ve.written, FromNat(MaxPayload))

\* C36: after any sequence of create, create_named, attach, attach_named,
\* detach and destroy calls, successful or failed, num_created_regions is
\* the number of handles on the created list, num_foreign_regions is the
\* number of handles on the attached list, and neither is negative.
C36_CountConsistency ==
    \A p \in Procs :
       stat[p] = "run" =>
          /\ numc[p] = Cardinality(OnList(St, p, "created"))
          /\ numf[p] = Cardinality(OnList(St, p, "foreign"))
          /\ numc[p] >= 0 /\ numf[p] >= 0

\* C37: in every reachable state of the region manager every handle
\* reachable from the created list or the attached list is live, also after
\* a detach or destroy whose backend callback failed and after a detach of a
\* created region, so that shm_finalize never visits a freed handle.
C37_NoDanglingHandles ==
    \A p \in Procs :
       OnList(St, p, "created") \cup OnList(St, p, "foreign") \subseteq hlive[p]

\* neither endpoint is between the first store of a call and the advance of
\* its cursor
BetweenCalls == ppc # "write" /\ cpc # "release"

\* the k circular positions from cursor c on
Circular(c, k) == { (c + j) % NumSlots : j \in 0..(k - 1) }

DfRelease ==
    /\ cep /\ initialized = 1 /\ cpc = "idle"
    /\ cpc' = "release" /\ cpend' = {"size", "status"}
    /\ cret' = RC_PENDING
    /\ rel' = [pc |-> "called", idx |-> cidx, status |-> slots[cidx].status,
               held |-> cheld]
    /\ UNCHANGED <<shmvars, lay, cross, xch, mk, ve, epret, initialized, slots, punch, cep, cidx, cheld, clen, inflight>>

NextRelease ==
    \/ GetSenderEp \/ GetReceiverEp
    \/ Prepare \/ EnqueueCall \/ EnqueueSpin \/ TryEnqueueCall
    \/ EnqueueCopy(FALSE) \/ EnqueueSize(FALSE) \/ EnqueuePublish(FALSE)
    \/ IsEnqueuePossible
    \/ DequeueCall \/ DequeueSpin \/ TryDequeueCall \/ DequeueReturn
    \/ DfRelease \/ ReleaseSize(FALSE) \/ ReleaseStatus(FALSE)
    \/ IsDequeuePossible

\* the queue with a receiver that may call df_release at any time
SpecRelease == Init /\ [][NextRelease]_vars

\* the same calls with the stores of each call in program order
NextReleaseOrdered ==
    \/ GetSenderEp \/ GetReceiverEp
    \/ Prepare \/ EnqueueCall \/ EnqueueSpin \/ TryEnqueueCall
    \/ EnqueueCopy(TRUE) \/ EnqueueSize(TRUE) \/ EnqueuePublish(TRUE)
    \/ IsEnqueuePossible
    \/ DequeueCall \/ DequeueSpin \/ TryDequeueCall \/ DequeueReturn
    \/ DfRelease \/ ReleaseSize(TRUE) \/ ReleaseStatus(TRUE)
    \/ IsDequeuePossible

SpecReleaseOrdered == Init /\ [][NextReleaseOrdered]_vars

\* a store of the release in progress
ReleaseStoreStep == cpc = "release" /\ cpend' # cpend

\* the enqueues that have returned 0 and whose slot no release has emptied
CompletedUnreleased ==
    Len(inflight) - (IF ppc = "write" /\ "status" \notin ppend THEN 1 ELSE 0)

\* C39: the consumer never overtakes the producer.  For every sequence of
\* calls on the two endpoints of a queue, including df_release called when
\* no dequeue succeeded since the previous release, every release that
\* empties a slot and goes on to advance the consumer cursor finds a
\* completed enqueue that no earlier release has taken, so that the number
\* of releases that advanced the cursor never exceeds the number of
\* completed enqueues; and a release entered on a slot that is EMPTY leaves
\* the consumer cursor and all slot state unchanged.
C39_NoOvertake ==
    [][ /\ ReleaseStatusStep => CompletedUnreleased >= 1
        /\ (ReleaseStoreStep /\ rel.pc = "called" /\ rel.status = SLOT_EMPTY) =>
               cidx' = cidx /\ slots' = slots ]_vars

\* df_try_enqueue_vector returns: the one status read of a call whose payload
\* is within the limit
TryEnqueueDecides == ppc = "call_try_enqueue" /\ ppc' # ppc /\ Fits(VecSize(pvec))

\* df_try_dequeue returns -1
TryDequeueFails ==
    cpc = "idle" /\ cpc' = "idle" /\ cret # RC_TRY_NO_SLOT /\ cret' = RC_TRY_NO_SLOT

\* C40: owner-side stability of the predicates.  Once df_is_enqueue_possible
\* has returned 1, the slot at the producer's cursor stays EMPTY under every
\* step of the consumer, df_release without a dequeue included, until the
\* producer itself stores into it, so the producer's next try-enqueue of a
\* payload within the limit goes on to copy and return 0, and its next
\* blocking enqueue leaves the loop at its first read; once
\* df_is_dequeue_possible has returned 1, the slot at the consumer's cursor
\* stays FULL under every step of the producer until the consumer's next
\* call, and that call, if it is df_try_dequeue, does not return -1.
C40_OwnerSideStability ==
    [][ /\ (IsEnqueuePossibleReturns /\ pret' = 1) => SlotIsEmpty(pidx)'
        /\ (SlotIsEmpty(pidx) /\ ppc # "write") => SlotIsEmpty(pidx)'
        /\ (TryEnqueueDecides /\ SlotIsEmpty(pidx)) =>
               ppc' = "write" /\ pret' # RC_TRY_NO_SLOT
        /\ (ppc = "spin" /\ ppc' # ppc /\ SlotIsEmpty(pidx)) => ppc' = "write"
        /\ (ppc = "write" /\ ppc' = "idle") => pret' = RC_OK
        /\ (cep /\ cpc = "idle" /\ cret = 1) => SlotIsFull(cidx)
        /\ (cep /\ cpc = "idle" /\ cret = 1) => ~TryDequeueFails
        /\ (cep /\ cpc = "idle" /\ cret = 1 /\ cpc' = "rdsize") => cret' = RC_PENDING
        /\ (cpc = "rdsize" /\ cpc' # cpc) => cret' = RC_OK ]_vars

\* df_is_dequeue_possible has returned 1 and the consumer has made no call
\* since, while the producer, past the consumer on the other slot, is about
\* to try an enqueue into an EMPTY slot
C40_Witness ==
    /\ cep /\ cpc = "idle" /\ cret = 1 /\ SlotIsFull(cidx)
    /\ ppc = "call_try_enqueue" /\ Fits(VecSize(pvec))
    /\ pidx # cidx /\ SlotIsEmpty(pidx)
    /\ rel.pc = "called"
====
